---- MODULE Spec2Model ----
(***************************************************************************)
(* Observability aggregation and scoring pipeline of the Playwright POM    *)
(* observability framework: the reporter that collects one entry per test  *)
(* (reporters/observability-reporter.ts) and the benchmark payload builder *)
(* (scripts/generate-performance-benchmark-report.ts).                     *)
(*                                                                         *)
(* Numbers.  The program computes in IEEE doubles and rounds every score   *)
(* to two decimals.  Here a value that the program has rounded to two      *)
(* decimals is an integer number of hundredths (36.36 is 3636), and a      *)
(* value that it has not rounded (a mean, a rate, a throughput) is an      *)
(* exact fraction [num, den].  den = 0 stands for the double +Infinity     *)
(* (num > 0) or -Infinity (num < 0) that a division by zero produces.      *)
(* The arithmetic on these is exact.  The one place where the rounding of  *)
(* doubles can change an integer result, the rank Math.ceil((p / 100) * n) *)
(* of percentile, is computed as doubles compute it (ceilPercentOf).       *)
(*                                                                         *)
(* Strings.  A string is a sequence of tokens; a token is a word or one of *)
(* the punctuation tokens " ", ">", "[", "]".  Splitting, trimming,        *)
(* slicing and lower-casing work on the tokens.                            *)
(***************************************************************************)
EXTENDS Integers, Sequences, FiniteSets, TLC

VARIABLES
    score, tier,            \* tierFromScore: its argument and its result
    testCase, labelled,     \* a TestCase and the entry/browser label made of it
    test, benchEntry,       \* buildBenchmarkTestEntry: its argument and result
    summary, payload,       \* buildPayload: its argument and its result
    lastChange,             \* which operation produced the current summary
    testsById,              \* the reporter's Map, in insertion order
    reported,               \* per test id, the results onTestEnd was called with
    pending,                \* onTestEnd invocations awaiting their attachment
    written,                \* the summary onEnd wrote, once it has
    pendingAtEnd,           \* the invocations that were pending when it did
    clock,                  \* the time new Date() reads
    sample, stat,           \* a statistic or score function: arguments, result
    scan,                   \* runAccessibilityScan: the rule reached, its findings
    collector               \* the fixture's counters and its in-flight requests

reporterVars == <<testsById, reported, pending, written, pendingAtEnd>>

callVars == <<clock, sample, stat>>

fixtureVars == <<scan, collector>>

vars == <<score, tier, testCase, labelled, test, benchEntry, summary, payload,
          lastChange, reporterVars, callVars, fixtureVars>>

-----------------------------------------------------------------------------
(* Math helpers                                                            *)

\* Math.round(a / b) for b > 0: the nearest integer, halves towards +Infinity.
RoundDiv(a, b) == (a \div b) + (IF 2 * (a % b) >= b THEN 1 ELSE 0)

Min2(a, b) == IF a <= b THEN a ELSE b
Max2(a, b) == IF a >= b THEN a ELSE b

\* clamp(value, min, max) = Math.min(max, Math.max(min, value))
clamp(value, min, max) == Min2(max, Max2(min, value))

\* An exact fraction; den >= 0, den = 0 is an infinity of the sign of num.
Frac(n, d) == IF d < 0 THEN [num |-> -n, den |-> -d] ELSE [num |-> n, den |-> d]

IsFinite(f) == f.den > 0

\* f <= k and f >= k for a fraction f and an integer k.
FracLeq(f, k) == IF f.den = 0 THEN f.num < 0 ELSE f.num <= k * f.den
FracGeq(f, k) == IF f.den = 0 THEN f.num > 0 ELSE f.num >= k * f.den

RECURSIVE SumSeq(_)
SumSeq(s) == IF s = <<>> THEN 0 ELSE Head(s) + SumSeq(Tail(s))

RECURSIVE MaxSeq(_)
MaxSeq(s) == IF Len(s) = 1 THEN s[1] ELSE Max2(Head(s), MaxSeq(Tail(s)))

RECURSIVE MinSeq(_)
MinSeq(s) == IF Len(s) = 1 THEN s[1] ELSE Min2(Head(s), MinSeq(Tail(s)))

\* values.filter(keep): the kept elements in their order.
RECURSIVE FilterSeq(_, _)
FilterSeq(s, keep) ==
    IF s = <<>> THEN <<>>
    ELSE (IF Head(s) \in keep THEN <<Head(s)>> ELSE <<>>) \o FilterSeq(Tail(s), keep)

average_noGuard(values) == Frac(SumSeq(values), Len(values))

\* average(values): the mean as a fraction, 0 for an empty array.
average(values) ==
    IF Len(values) = 0 THEN Frac(0, 1) ELSE Frac(SumSeq(values), Len(values))

\* [...values].sort((a, b) => a - b): insertion into an ascending sequence.
RECURSIVE InsertAsc(_, _)
InsertAsc(x, s) ==
    IF s = <<>> THEN <<x>>
    ELSE IF x <= Head(s) THEN <<x>> \o s
    ELSE <<Head(s)>> \o InsertAsc(x, Tail(s))

RECURSIVE SortAsc(_)
SortAsc(s) == IF s = <<>> THEN <<>> ELSE InsertAsc(Head(s), SortAsc(Tail(s)))

\* Math.ceil(a / b) for b > 0.
CeilDiv(a, b) == -((-a) \div b)

RECURSIVE Pow2(_)
Pow2(e) == IF e = 0 THEN 1 ELSE 2 * Pow2(e - 1)

\* 2^e modulo m.
RECURSIVE Pow2Mod(_, _)
Pow2Mod(e, m) == IF e = 0 THEN 1 % m ELSE (2 * Pow2Mod(e - 1, m)) % m

\* floor(log2(k)) for an integer k >= 1.
RECURSIVE Log2Floor(_)
Log2Floor(k) == IF k < 2 THEN 0 ELSE 1 + Log2Floor(k \div 2)

\* Math.ceil((p / 100) * n) as doubles compute it, for integers 0 <= p <= 100
\* and 1 <= n < 2^20.  The quotient p / 100 is rounded to a 53-bit mantissa
\* M = round(p * 2^s / 100), s = 52 + e with 100 <= p * 2^e < 200, so it is
\* p/100 + d / (100 * 2^s) with d = -r or 100 - r, r = p * 2^s mod 100 (a
\* tie r = 50 cannot occur: p * 2^s is a multiple of 4).  The product with n
\* is then rounded again.  Both errors are below 2^-30, so they matter only
\* when p * n / 100 is an integer k: the product is above k exactly when d > 0
\* and n * d / (100 * 2^s) exceeds half the spacing 2^(Log2Floor(k) - 52) of
\* the doubles at k (on a tie the even mantissa, that of k, is taken).
ceilPercentOf(p, n) ==
    IF (p * n) % 100 # 0 THEN CeilDiv(p * n, 100)
    ELSE IF p = 0 THEN 0
    ELSE LET k == (p * n) \div 100
             e == CHOOSE x \in 0..7 : 100 <= p * Pow2(x) /\ p * Pow2(x) < 200
             r == (p * Pow2Mod(52 + e, 100)) % 100
             d == IF 2 * r > 100 THEN 100 - r ELSE -r
         IN  IF d > 0 /\ 2 * n * d > 100 * Pow2(Log2Floor(k) + e)
             THEN k + 1 ELSE k

\* percentile(values, p): the element of the sorted copy at the clamped index
\* Math.ceil((p / 100) * n) - 1; 0 for an empty array.
percentile(values, p) ==
    IF Len(values) = 0 THEN 0
    ELSE LET sorted == SortAsc(values)
             idx    == ceilPercentOf(p, Len(sorted)) - 1
         IN  sorted[Min2(Max2(idx, 0), Len(sorted) - 1) + 1]

\* stdDev(values): Math.sqrt of the mean of the squared deviations.  The root
\* is kept exact as the fraction under it; 0 for an empty array.
stdDev(values) ==
    IF Len(values) = 0 THEN [squared |-> Frac(0, 1)]
    ELSE LET mean    == average(values)
             squares == [i \in 1..Len(values) |->
                            (values[i] * mean.den - mean.num)
                          * (values[i] * mean.den - mean.num)]
         IN  [squared |-> Frac(SumSeq(squares),
                               Len(squares) * mean.den * mean.den)]

\* What stands, among the hundredths, for a rounded NaN or infinity: no
\* rounded finite value of the model is negative.
NonFinite == -1

\* round(value) of a non-negative fraction, in hundredths.  Math.round leaves
\* NaN and the infinities as they are.
round(value) ==
    IF value.den = 0 THEN NonFinite ELSE RoundDiv(100 * value.num, value.den)

-----------------------------------------------------------------------------
(* Scoring helpers.  Scores are in hundredths: 100 is 10000.               *)

scoreLowerBetter_rising(value, target, max) ==
    IF FracLeq(value, target) THEN 10000
    ELSE IF FracGeq(value, max) THEN 0
    ELSE clamp(RoundDiv(10000 * (value.num - target * value.den),
                        (max - target) * value.den), 0, 10000)

\* scoreLowerBetter(value, target, max) of a fraction.
scoreLowerBetter(value, target, max) ==
    IF FracLeq(value, target) THEN 10000
    ELSE IF FracGeq(value, max) THEN 0
    ELSE clamp(RoundDiv(10000 * (max * value.den - value.num),
                        (max - target) * value.den), 0, 10000)

\* scoreHigherBetter(value, min, target) of a fraction.
scoreHigherBetter(value, min, target) ==
    IF FracGeq(value, target) THEN 10000
    ELSE IF FracLeq(value, min) THEN 0
    ELSE clamp(RoundDiv(10000 * (value.num - min * value.den),
                        (target - min) * value.den), 0, 10000)

tierFromScore_wrongBand(s) ==
    IF s >= 9000 THEN "Elite"
    ELSE IF s >= 7500 THEN "Strong"
    ELSE IF s > 6000 THEN "Stable"
    ELSE IF s >= 4000 THEN "Watch"
    ELSE "Critical"

tierFromScore_aboveOnly(s) ==
    IF s > 9000 THEN "Elite"
    ELSE IF s > 7500 THEN "Strong"
    ELSE IF s > 6000 THEN "Stable"
    ELSE IF s > 4000 THEN "Watch"
    ELSE "Critical"

\* tierFromScore(score), the score in hundredths.
tierFromScore(s) ==
    IF s >= 9000 THEN "Elite"
    ELSE IF s >= 7500 THEN "Strong"
    ELSE IF s >= 6000 THEN "Stable"
    ELSE IF s >= 4000 THEN "Watch"
    ELSE "Critical"

a11yScore_equalWeights(a) ==
    LET penalty == a.critical + a.serious + a.moderate + a.minor
    IN  clamp(10000 - penalty * 800, 0, 10000)

\* a11yScore(a): 100 - 8 * penalty, clamped, in hundredths.
a11yScore(a) ==
    LET penalty == a.critical * 4 + a.serious * 3 + a.moderate * 2 + a.minor * 1
    IN  clamp(10000 - penalty * 800, 0, 10000)

-----------------------------------------------------------------------------
(* Strings as token sequences                                              *)

\* A value that may be undefined: <<>> is undefined, <<x>> is the value x.
Undefined == <<>>
Some(x) == <<x>>

\* ' > ', the separator of the joined title path.
Sep == <<" ", ">", " ">>

\* String.prototype.toLowerCase on one token.
LowerTok(t) ==
    CASE t = "Chromium" -> "chromium"
      [] t = "Firefox"  -> "firefox"
      [] t = "WebKit"   -> "webkit"
      [] t = "Mobile"   -> "mobile"
      [] t = "Default"  -> "default"
      [] OTHER          -> t

toLowerCase(s) == [i \in 1..Len(s) |-> LowerTok(s[i])]

RECURSIVE TrimStart(_)
TrimStart(s) == IF s # <<>> /\ Head(s) = " " THEN TrimStart(Tail(s)) ELSE s

RECURSIVE TrimEnd(_)
TrimEnd(s) ==
    IF s # <<>> /\ s[Len(s)] = " " THEN TrimEnd(SubSeq(s, 1, Len(s) - 1)) ELSE s

\* String.prototype.trim
trim(s) == TrimEnd(TrimStart(s))

StartsWith(s, p) == Len(s) >= Len(p) /\ SubSeq(s, 1, Len(p)) = p

\* s.split(' > ')[0]: what precedes the first separator, s when there is none.
RECURSIVE SplitHead(_)
SplitHead(s) ==
    IF s = <<>> \/ StartsWith(s, Sep) THEN <<>>
    ELSE <<Head(s)>> \o SplitHead(Tail(s))

\* segments.join(' > ')
RECURSIVE Join(_)
Join(segments) ==
    IF segments = <<>> THEN <<>>
    ELSE IF Len(segments) = 1 THEN segments[1]
    ELSE segments[1] \o Sep \o Join(Tail(segments))

\* titlePath.filter(Boolean): the non-empty segments.
RECURSIVE FilterBoolean(_)
FilterBoolean(segments) ==
    IF segments = <<>> THEN <<>>
    ELSE (IF Head(segments) # <<>> THEN <<Head(segments)>> ELSE <<>>)
         \o FilterBoolean(Tail(segments))

KnownEngines == {<<"chromium">>, <<"firefox">>, <<"webkit">>}

IsBracketed(segment) ==
    segment # <<>> /\ Head(segment) = "[" /\ segment[Len(segment)] = "]"

\* titlePath.find(segment => segment.startsWith('[') && segment.endsWith(']'))
RECURSIVE FindBracketed(_)
FindBracketed(segments) ==
    IF segments = <<>> THEN Undefined
    ELSE IF IsBracketed(Head(segments)) THEN Some(Head(segments))
    ELSE FindBracketed(Tail(segments))

\* resolveProjectName(test) of the reporter.
resolveProjectName(t) ==
    LET fromSuite        == t.project
        firstPathSegment == IF t.titlePath = <<>> THEN <<>> ELSE t.titlePath[1]
        fullTitle        == FindBracketed(t.titlePath)
    IN  IF fromSuite # Undefined /\ fromSuite[1] # <<>> THEN fromSuite[1]
        ELSE IF firstPathSegment # <<>> /\ toLowerCase(firstPathSegment) \in KnownEngines
             THEN toLowerCase(firstPathSegment)
        ELSE IF fullTitle = Undefined THEN <<"default">>
        ELSE SubSeq(fullTitle[1], 2, Len(fullTitle[1]) - 1)

\* The title onTestEnd stores: titlePath.filter(Boolean).join(' > ') || test.title
EntryTitle(t) ==
    LET joined == Join(FilterBoolean(t.titlePath))
    IN  IF joined # <<>> THEN joined ELSE t.title

extractBrowserName_projectFirst(t) ==
    LET head == toLowerCase(trim(SplitHead(t.title)))
    IN  IF t.projectName # <<>> /\ t.projectName # <<"default">>
        THEN toLowerCase(t.projectName)
        ELSE IF head \in KnownEngines THEN head
        ELSE <<"unknown">>

\* extractBrowserName(test) of the report generator.
extractBrowserName(t) ==
    LET head == toLowerCase(trim(SplitHead(t.title)))
    IN  IF head \in KnownEngines THEN head
        ELSE IF t.projectName # <<>> /\ t.projectName # <<"default">>
             THEN toLowerCase(t.projectName)
        ELSE <<"unknown">>

-----------------------------------------------------------------------------
(* Build enriched entries                                                  *)

\* A startedAt string: the ISO form of the instant ms (iso), or a string that
\* is no date, such as '' (not iso).
IsoString(ms) == [iso |-> TRUE, ms |-> ms]
NoDate == [iso |-> FALSE, ms |-> 0]

\* Date.parse(startedAt): <<ms>> for an ISO string, <<>> standing for NaN.
DateParse(startedAt) == IF startedAt.iso THEN <<startedAt.ms>> ELSE <<>>

\* Number.isFinite of a parsed timestamp.
NumberIsFinite(ms) == ms # <<>>

errorSignalsOf_failuresOffset(t) ==
    t.responseErrorCount + t.consoleErrorCount + t.pageErrorCount - t.requestFailureCount

\* test.requestFailureCount + responseErrorCount + consoleErrorCount + pageErrorCount
errorSignalsOf(t) ==
    t.requestFailureCount + t.responseErrorCount + t.consoleErrorCount + t.pageErrorCount

\* round(60_000 / Math.max(1, test.durationMs)), in hundredths.
throughputPerMinOf(t) == RoundDiv(6000000, Max2(1, t.durationMs))

reliabilityScoreOf_tenPerRetry(t) ==
    LET reliabilityBase ==
            IF t.status = "passed" THEN 100 ELSE IF t.status = "skipped" THEN 70 ELSE 15
    IN  clamp((reliabilityBase - t.retry * 10) * 100, 0, 10000)

reliabilityScoreOf_noClamp(t) ==
    LET reliabilityBase ==
            IF t.status = "passed" THEN 100 ELSE IF t.status = "skipped" THEN 70 ELSE 15
    IN  (reliabilityBase - t.retry * 15) * 100

\* clamp(reliabilityBase - test.retry * 15, 0, 100), in hundredths.
reliabilityScoreOf(t) ==
    LET reliabilityBase ==
            IF t.status = "passed" THEN 100 ELSE IF t.status = "skipped" THEN 70 ELSE 15
    IN  clamp((reliabilityBase - t.retry * 15) * 100, 0, 10000)

testThroughputScore_unrounded(t) ==
    scoreHigherBetter(Frac(60000, Max2(1, t.durationMs)), 4, 30)

\* scoreHigherBetter(throughputPerMin, 4, 30) of the rounded throughputPerMin.
testThroughputScore(t) == scoreHigherBetter(Frac(throughputPerMinOf(t), 100), 4, 30)

\* round(duration*0.35 + reliability*0.25 + quality*0.15 + throughput*0.1
\*       + accessibility*0.15)
testBenchmarkScore(ds, rs, qs, ts, as) ==
    RoundDiv(35 * ds + 25 * rs + 15 * qs + 10 * ts + 15 * as, 100)

\* buildBenchmarkTestEntry(test): the test's fields and the computed ones.
buildBenchmarkTestEntry(t) ==
    LET browser            == extractBrowserName(t)
        errorSignals       == errorSignalsOf(t)
        throughputPerMin   == throughputPerMinOf(t)
        durationScore      == scoreLowerBetter(Frac(t.durationMs, 1), 1500, 9000)
        reliabilityScore   == reliabilityScoreOf(t)
        qualityScore       == scoreLowerBetter(Frac(errorSignals, 1), 0, 6)
        throughputScore    == testThroughputScore(t)
        accessibilityScore == a11yScore(t.accessibility)
        benchmarkScore     == testBenchmarkScore(durationScore, reliabilityScore,
                                  qualityScore, throughputScore, accessibilityScore)
        startedAtMs        == DateParse(t.startedAt)
        endedAtMs          == IF NumberIsFinite(startedAtMs)
                              THEN <<startedAtMs[1] + t.durationMs>>
                              ELSE <<t.durationMs>>
    IN  [browser            |-> browser,
         errorSignals       |-> errorSignals,
         throughputPerMin   |-> throughputPerMin,
         durationScore      |-> durationScore,
         reliabilityScore   |-> reliabilityScore,
         qualityScore       |-> qualityScore,
         throughputScore    |-> throughputScore,
         accessibilityScore |-> accessibilityScore,
         benchmarkScore     |-> benchmarkScore,
         benchmarkTier      |-> tierFromScore(benchmarkScore),
         startedAtMs        |-> startedAtMs,
         endedAtMs          |-> endedAtMs] @@ t

\* The sequence s mapped through the field selector: s.map(i => i.field)
MapField(s, field) == [i \in 1..Len(s) |-> s[i][field]]

\* The concatenation of a sequence of sequences (the finite timestamps kept).
RECURSIVE Flatten(_)
Flatten(ss) == IF ss = <<>> THEN <<>> ELSE Head(ss) \o Flatten(Tail(ss))

wallTimeMsFromTests_noFallback(tests) ==
    IF Len(tests) = 0 THEN 0
    ELSE LET starts == Flatten(MapField(tests, "startedAtMs"))
             ends   == Flatten(MapField(tests, "endedAtMs"))
         IN  IF Len(starts) > 0 /\ Len(ends) > 0
             THEN MaxSeq(ends) - MinSeq(starts)
             ELSE SumSeq(MapField(tests, "durationMs"))

\* wallTimeMsFromTests(tests)
wallTimeMsFromTests(tests) ==
    IF Len(tests) = 0 THEN 0
    ELSE LET starts == Flatten(MapField(tests, "startedAtMs"))
             ends   == Flatten(MapField(tests, "endedAtMs"))
             span   == MaxSeq(ends) - MinSeq(starts)
         IN  IF Len(starts) > 0 /\ Len(ends) > 0 /\ span > 0
             THEN span
             ELSE SumSeq(MapField(tests, "durationMs"))

\* list.length / (wallTimeMsFromTests(list) / 60_000); 0 for an empty list.
\* A wall time of 0 makes the division list.length / 0, which is +Infinity.
throughputTestsPerMinOf(list) ==
    IF Len(list) = 0 THEN Frac(0, 1)
    ELSE Frac(60000 * Len(list), wallTimeMsFromTests(list))

\* round(value) of a fraction: hundredths over 100; an infinity stays one.
Round2(f) == IF IsFinite(f) THEN Frac(RoundDiv(100 * f.num, f.den), 100) ELSE f

\* The number of elements of s whose field is in the set.
CountIn(s, field, set) == Cardinality({i \in 1..Len(s) : s[i][field] \in set})

\* list.filter(i => i.retry > 0).length
CountRetried(s) == Cardinality({i \in 1..Len(s) : s[i].retry > 0})

-----------------------------------------------------------------------------
(* Browser rows                                                            *)

RECURSIVE GroupKeys_everyTest(_, _)
GroupKeys_everyTest(tests, seen) ==
    IF tests = <<>> THEN <<>>
    ELSE <<Head(tests).browser>> \o GroupKeys_everyTest(Tail(tests), seen)

\* The browsers of the tests in the order of their first appearance: the
\* insertion order of the Map `groups`.
RECURSIVE GroupKeys(_, _)
GroupKeys(tests, seen) ==
    IF tests = <<>> THEN <<>>
    ELSE IF Head(tests).browser \in seen THEN GroupKeys(Tail(tests), seen)
    ELSE <<Head(tests).browser>>
         \o GroupKeys(Tail(tests), seen \cup {Head(tests).browser})

\* groups.get(browser): the tests of the browser, in their order.
RECURSIVE GroupOf(_, _)
GroupOf(tests, browser) ==
    IF tests = <<>> THEN <<>>
    ELSE (IF Head(tests).browser = browser THEN <<Head(tests)>> ELSE <<>>)
         \o GroupOf(Tail(tests), browser)

\* (list.filter(i => i.status === 'passed').length / list.length) * 100
passRatePctOf(list) ==
    IF Len(list) = 0 THEN Frac(0, 1)
    ELSE Frac(100 * CountIn(list, "status", {"passed"}), Len(list))

\* (list.filter(i => i.retry > 0).length / list.length) * 100
retryRatePctOf(list) ==
    IF Len(list) = 0 THEN Frac(0, 1) ELSE Frac(100 * CountRetried(list), Len(list))

\* average(list.map(i => i.errorSignals)); 0 for an empty list.
errorSignalsPerTestOf(list) ==
    IF Len(list) = 0 THEN Frac(0, 1) ELSE average(MapField(list, "errorSignals"))

\* round(scoreLowerBetter(avg, 1500, 7000) * 0.6 + scoreLowerBetter(p95, 3000, 9500) * 0.4)
groupDurationScore(list) ==
    LET durations == MapField(list, "durationMs")
    IN  RoundDiv(6 * scoreLowerBetter(average(durations), 1500, 7000)
                 + 4 * scoreLowerBetter(Frac(percentile(durations, 95), 1), 3000, 9500),
                 10)

\* round(passRatePct * 0.7 + scoreLowerBetter(retryRatePct, 0, 40) * 0.3)
groupReliabilityScore(list) ==
    LET passRatePct == passRatePctOf(list)
    IN  RoundDiv(70 * 100 * passRatePct.num
                 + 30 * scoreLowerBetter(retryRatePctOf(list), 0, 40) * passRatePct.den,
                 100 * passRatePct.den)

\* round(scoreLowerBetter(errorSignalsPerTest, 0, 4))
groupQualityScore(list) == scoreLowerBetter(errorSignalsPerTestOf(list), 0, 4)

\* round(scoreHigherBetter(throughputTestsPerMin, 5, 22))
groupThroughputScore(list) == scoreHigherBetter(throughputTestsPerMinOf(list), 5, 22)

rowAccessibilityScore_fromCounts(list) ==
    a11yScore([critical |-> SumSeq([i \in 1..Len(list) |-> list[i].accessibility.critical]),
               serious  |-> SumSeq([i \in 1..Len(list) |-> list[i].accessibility.serious]),
               moderate |-> SumSeq([i \in 1..Len(list) |-> list[i].accessibility.moderate]),
               minor    |-> SumSeq([i \in 1..Len(list) |-> list[i].accessibility.minor])])

\* round(average(list.map(i => i.accessibilityScore)))
rowAccessibilityScore(list) ==
    LET mean == average(MapField(list, "accessibilityScore"))
    IN  RoundDiv(mean.num, mean.den)

rowBenchmarkScore_testWeights(ds, rs, qs, ts, as) ==
    RoundDiv(35 * ds + 25 * rs + 15 * qs + 10 * ts + 15 * as, 100)

\* round(duration*0.3 + reliability*0.25 + quality*0.15 + throughput*0.1
\*       + accessibility*0.2)
rowBenchmarkScore(ds, rs, qs, ts, as) ==
    RoundDiv(30 * ds + 25 * rs + 15 * qs + 10 * ts + 20 * as, 100)

groupBenchmarkScore_meanOfTests(list) ==
    LET mean == average(MapField(list, "benchmarkScore"))
    IN  RoundDiv(mean.num, mean.den)

\* The composite of a group: the weighted sum of the group's own sub-scores.
groupBenchmarkScore(list) ==
    rowBenchmarkScore(groupDurationScore(list), groupReliabilityScore(list),
                      groupQualityScore(list), groupThroughputScore(list),
                      rowAccessibilityScore(list))

\* The row that buildBrowserRows pushes for one group.
BrowserRow(browser, list) ==
    LET durations             == MapField(list, "durationMs")
        durationScore         == groupDurationScore(list)
        reliabilityScore      == groupReliabilityScore(list)
        qualityScore          == groupQualityScore(list)
        throughputScore       == groupThroughputScore(list)
        accessibilityScoreVal == rowAccessibilityScore(list)
        benchmarkScore        == groupBenchmarkScore(list)
    IN  [browser               |-> browser,
         totalTests            |-> Len(list),
         passed                |-> CountIn(list, "status", {"passed"}),
         failed                |-> CountIn(list, "status", {"failed", "timedOut"}),
         totalRequests         |-> SumSeq(MapField(list, "requestCount")),
         requestFailures       |-> SumSeq(MapField(list, "requestFailureCount")),
         passRatePct           |-> Round2(passRatePctOf(list)),
         retryRatePct          |-> Round2(retryRatePctOf(list)),
         errorSignalsPerTest   |-> Round2(errorSignalsPerTestOf(list)),
         avgDurationMs         |-> Round2(average(durations)),
         p95DurationMs         |-> percentile(durations, 95),
         throughputTestsPerMin |-> Round2(throughputTestsPerMinOf(list)),
         durationScore         |-> durationScore,
         reliabilityScore      |-> reliabilityScore,
         qualityScore          |-> qualityScore,
         throughputScore       |-> throughputScore,
         accessibilityScore    |-> accessibilityScoreVal,
         benchmarkScore        |-> benchmarkScore,
         benchmarkTier         |-> tierFromScore(benchmarkScore),
         a11yViolations        |-> SumSeq([i \in 1..Len(list) |->
                                             list[i].accessibility.totalViolations]),
         a11yCritical          |-> SumSeq([i \in 1..Len(list) |->
                                             list[i].accessibility.critical]),
         a11ySerious           |-> SumSeq([i \in 1..Len(list) |->
                                             list[i].accessibility.serious])]

\* rows.sort((a, b) => b.benchmarkScore - a.benchmarkScore): stable, descending.
RECURSIVE InsertRow_beforeEqual(_, _)
InsertRow_beforeEqual(row, rows) ==
    IF rows = <<>> THEN <<row>>
    ELSE IF Head(rows).benchmarkScore <= row.benchmarkScore THEN <<row>> \o rows
    ELSE <<Head(rows)>> \o InsertRow_beforeEqual(row, Tail(rows))

\* One step of rows.sort((a, b) => b.benchmarkScore - a.benchmarkScore), which
\* is stable: a row goes behind the rows of the same score that precede it.
RECURSIVE InsertRow(_, _)
InsertRow(row, rows) ==
    IF rows = <<>> THEN <<row>>
    ELSE IF Head(rows).benchmarkScore < row.benchmarkScore THEN <<row>> \o rows
    ELSE <<Head(rows)>> \o InsertRow(row, Tail(rows))

RECURSIVE SortRows(_)
SortRows(rows) ==
    IF rows = <<>> THEN <<>>
    ELSE InsertRow(rows[Len(rows)], SortRows(SubSeq(rows, 1, Len(rows) - 1)))

\* buildBrowserRows(tests)
buildBrowserRows(tests) ==
    LET keys == GroupKeys(tests, {})
    IN  SortRows([k \in 1..Len(keys) |-> BrowserRow(keys[k], GroupOf(tests, keys[k]))])

-----------------------------------------------------------------------------
(* Build payload                                                           *)

overallBenchmarkScore_withAccessibility(ds, rs, qs, ts, as) ==
    RoundDiv(30 * ds + 25 * rs + 15 * qs + 10 * ts + 20 * as, 100)

\* round(duration*0.4 + reliability*0.3 + quality*0.2 + throughput*0.1); the
\* mean accessibility score `as` of the run is computed next to it and is no
\* term of it.
overallBenchmarkScore(ds, rs, qs, ts, as) ==
    RoundDiv(40 * ds + 30 * rs + 20 * qs + 10 * ts, 100)

\* The run-level sub-scores, locals of buildPayload; the expressions are the
\* ones of a browser row, over all the tests.
overallDurationScore(tests)    == groupDurationScore(tests)
overallReliabilityScore(tests) == groupReliabilityScore(tests)
overallQualityScore(tests)     == groupQualityScore(tests)
overallThroughputScore(tests)  == groupThroughputScore(tests)
\* round(average(tests.map(t => t.accessibilityScore)))
overallA11yScore(tests)        == rowAccessibilityScore(tests)

\* The violation objects of the tests in the order of the scan of lines
\* 425-426: the objects of the input that the rollup reads. In the heap of the
\* rollup the object at place a of this sequence has address a.
InputViolations(tests) ==
    Flatten([i \in 1..Len(tests) |-> tests[i].accessibility.violations])

\* violationMap.get(v.id): the address of the Map's object for the rule id,
\* if there is one. map holds the addresses of the Map's values in insertion
\* order.
ExistingFor(st, id) == {e \in 1..Len(st.map) : st.heap[st.map[e]].id = id}

rollupStep_assignsInput(st, a) ==
    LET v        == st.heap[a]
        existing == ExistingFor(st, v.id)
    IN  IF existing # {}
        THEN LET e == st.map[CHOOSE k \in existing : TRUE]
             IN  [heap |-> [st.heap EXCEPT ![e] = [@ EXCEPT !.count = @ + v.nodes]],
                  map  |-> st.map]
        ELSE [heap |-> [st.heap EXCEPT ![a] = [count |-> v.nodes] @@ @],
              map  |-> Append(st.map, a)]

rollupStep_countsOccurrences(st, a) ==
    LET v        == st.heap[a]
        existing == ExistingFor(st, v.id)
    IN  IF existing # {}
        THEN LET e == st.map[CHOOSE k \in existing : TRUE]
             IN  [heap |-> [st.heap EXCEPT ![e] = [@ EXCEPT !.count = @ + 1]],
                  map  |-> st.map]
        ELSE [heap |-> Append(st.heap, [id |-> v.id, impact |-> v.impact, count |-> 1]),
              map  |-> Append(st.map, Len(st.heap) + 1)]

\* One turn of the inner loop, lines 426-433, for the violation object at
\* address a: existing.count += v.nodes writes to the Map's object; a rule seen
\* for the first time gets a new object, which copies id, impact and nodes.
rollupStep(st, a) ==
    LET v        == st.heap[a]
        existing == ExistingFor(st, v.id)
    IN  IF existing # {}
        THEN LET e == st.map[CHOOSE k \in existing : TRUE]
             IN  [heap |-> [st.heap EXCEPT ![e] = [@ EXCEPT !.count = @ + v.nodes]],
                  map  |-> st.map]
        ELSE [heap |-> Append(st.heap, [id |-> v.id, impact |-> v.impact,
                                        count |-> v.nodes]),
              map  |-> Append(st.map, Len(st.heap) + 1)]

\* The loops of lines 425-434 over the first n violation objects.
RECURSIVE rollupLoop(_, _)
rollupLoop(tests, n) ==
    IF n = 0 THEN [heap |-> InputViolations(tests), map |-> <<>>]
    ELSE rollupStep(rollupLoop(tests, n - 1), n)

\* The heap and the Map when the loops are over.
violationMap(tests) == rollupLoop(tests, Len(InputViolations(tests)))

RECURSIVE InsertByCount_beforeEqual(_, _)
InsertByCount_beforeEqual(entry, entries) ==
    IF entries = <<>> THEN <<entry>>
    ELSE IF Head(entries).count <= entry.count THEN <<entry>> \o entries
    ELSE <<Head(entries)>> \o InsertByCount_beforeEqual(entry, Tail(entries))

\* sort((a, b) => b.count - a.count): stable, highest count first.
RECURSIVE InsertByCount(_, _)
InsertByCount(entry, entries) ==
    IF entries = <<>> THEN <<entry>>
    ELSE IF Head(entries).count < entry.count THEN <<entry>> \o entries
    ELSE <<Head(entries)>> \o InsertByCount(entry, Tail(entries))

RECURSIVE SortByCountDesc(_)
SortByCountDesc(entries) ==
    IF entries = <<>> THEN <<>>
    ELSE InsertByCount(entries[Len(entries)],
                       SortByCountDesc(SubSeq(entries, 1, Len(entries) - 1)))

\* The entries topViolations keeps.
TopN == 10

\* topViolations, line 435: the values of the Map, sorted, the first 10.
topViolationsOf(tests) ==
    LET st     == violationMap(tests)
        values == [k \in 1..Len(st.map) |-> st.heap[st.map[k]]]
        sorted == SortByCountDesc(values)
    IN  SubSeq(sorted, 1, Min2(TopN, Len(sorted)))

\* The input summary as buildPayload leaves it: every violation object read
\* back from the heap the rollup worked on. Nothing else of buildPayload,
\* buildBrowserRows or buildBenchmarkTestEntry writes to an object or array it
\* did not create (map, filter, spread and [...values] make new ones, and
\* rows.sort sorts the new array of rows).
summaryAfterBuild(s) ==
    LET st        == violationMap(s.tests)
        before(i) == Len(InputViolations(SubSeq(s.tests, 1, i - 1)))
    IN  [s EXCEPT !.tests =
            [i \in 1..Len(s.tests) |->
                [s.tests[i] EXCEPT !.accessibility.violations =
                    [j \in 1..Len(@) |-> st.heap[before(i) + j]]]]]

\* buildPayload(summary)
buildPayload(s) ==
    LET tests == [i \in 1..Len(s.tests) |-> buildBenchmarkTestEntry(s.tests[i])]
        benchmarkScore ==
            overallBenchmarkScore(overallDurationScore(tests),
                overallReliabilityScore(tests), overallQualityScore(tests),
                overallThroughputScore(tests), overallA11yScore(tests))
    IN  [runId      |-> s.runId,
         thresholds |-> [avgDurationTargetMs    |-> 1500,
                         p95DurationTargetMs    |-> 3000,
                         throughputTargetPerMin |-> 22,
                         retryRateTargetPct     |-> 0],
         overall    |-> [totalTests            |-> s.overall.totalTests,
                         totalRequests         |-> SumSeq(MapField(tests, "requestCount")),
                         requestFailures       |-> SumSeq(MapField(tests, "requestFailureCount")),
                         consoleErrorCount     |-> SumSeq(MapField(tests, "consoleErrorCount")),
                         pageErrorCount        |-> SumSeq(MapField(tests, "pageErrorCount")),
                         passRatePct           |-> Round2(passRatePctOf(tests)),
                         throughputTestsPerMin |-> Round2(throughputTestsPerMinOf(tests)),
                         retryRatePct          |-> Round2(retryRatePctOf(tests)),
                         errorSignalsPerTest   |-> Round2(errorSignalsPerTestOf(tests)),
                         benchmarkScore        |-> benchmarkScore,
                         benchmarkTier         |-> tierFromScore(benchmarkScore)],
         accessibility |-> [totalViolations     |-> s.accessibilityOverall.totalViolations,
                            critical            |-> s.accessibilityOverall.critical,
                            serious             |-> s.accessibilityOverall.serious,
                            moderate            |-> s.accessibilityOverall.moderate,
                            minor               |-> s.accessibilityOverall.minor,
                            testsWithViolations |-> s.accessibilityOverall.testsWithViolations,
                            testsScanned        |-> s.accessibilityOverall.testsScanned,
                            accessibilityScore  |-> overallA11yScore(tests),
                            topViolations       |-> topViolationsOf(tests)],
         browserRows |-> buildBrowserRows(tests),
         tests       |-> tests]

buildPayloadAt_echoThresholds(s, now) ==
    [generatedAt |-> IsoString(now),
     thresholds  |-> IF "thresholds" \in DOMAIN s THEN s.thresholds
                     ELSE buildPayload(s).thresholds] @@ buildPayload(s)

buildPayloadAt_clockRunId(s, now) ==
    [generatedAt |-> IsoString(now), runId |-> IsoString(now)] @@ buildPayload(s)

\* The payload with generatedAt: new Date().toISOString() of line 438, now
\* being what the clock shows during the call.
buildPayloadAt(s, now) == [generatedAt |-> IsoString(now)] @@ buildPayload(s)

\* The summary that the reporter's onEnd writes for a list of entries: the
\* input of buildPayload.
SummaryOf(runId, tests) ==
    LET a11y(field) == SumSeq([i \in 1..Len(tests) |-> tests[i].accessibility[field]])
    IN  [runId   |-> runId,
         overall |-> [totalTests |-> Len(tests)],
         accessibilityOverall |->
             [totalViolations     |-> a11y("totalViolations"),
              critical            |-> a11y("critical"),
              serious             |-> a11y("serious"),
              moderate            |-> a11y("moderate"),
              minor               |-> a11y("minor"),
              testsWithViolations |->
                  Cardinality({i \in 1..Len(tests) :
                                  tests[i].accessibility.totalViolations > 0}),
              testsScanned        |-> Len(tests)],
         tests   |-> tests]

-----------------------------------------------------------------------------
(* Inputs                                                                  *)

\* The longest list of tests of a summary.
MaxTests == 2

Violation(id, impact, nodes) == [id |-> id, impact |-> impact, nodes |-> nodes]

\* Accessibility results: none, two and four critical findings, and a result
\* with a negative count, which nothing validates.
A11yNone ==
    [totalViolations |-> 0, critical |-> 0, serious |-> 0, moderate |-> 0,
     minor |-> 0, violations |-> <<>>]
A11yTwoCritical ==
    [totalViolations |-> 2, critical |-> 2, serious |-> 0, moderate |-> 0,
     minor |-> 0,
     violations |-> <<Violation("image-alt", "critical", 3),
                      Violation("label", "critical", 1)>>]
A11yFourCritical ==
    [totalViolations |-> 4, critical |-> 4, serious |-> 0, moderate |-> 0,
     minor |-> 0,
     violations |-> <<Violation("image-alt", "critical", 2),
                      Violation("label", "critical", 1),
                      Violation("button-name", "critical", 1),
                      Violation("document-title", "critical", 1)>>]
A11yGarbage ==
    [totalViolations |-> 1, critical |-> -1, serious |-> 0, moderate |-> 1,
     minor |-> 1, violations |-> <<Violation("link-name", "minor", 4)>>]

A11yPool == {A11yNone, A11yTwoCritical, A11yFourCritical}

ChromiumTitle == <<"chromium">> \o Sep \o <<"docs.spec.ts">> \o Sep \o <<"loads">>
PlainTitle    == <<"docs.spec.ts">> \o Sep \o <<"loads">>

TestRecord(id, title, projectName, status, retry, durationMs, startedAt, counts) ==
    [id |-> id, title |-> title, projectName |-> projectName, status |-> status,
     retry |-> retry, durationMs |-> durationMs, startedAt |-> startedAt,
     requestCount        |-> counts[1],
     requestFailureCount |-> counts[2],
     responseErrorCount  |-> counts[3],
     consoleErrorCount   |-> counts[4],
     pageErrorCount      |-> counts[5]]

\* A record that nothing validated: negative duration and failure count.
GarbageTest ==
    TestRecord("t6", PlainTitle, <<"default">>, "timedOut", 0, -500,
               IsoString(104000), <<5, -1, 0, 0, 0>>)

\* Test records without their accessibility result: fast, slow, retried
\* without a timestamp, failed in no time, skipped, and the garbage.
BaseTests ==
    { TestRecord("t1", ChromiumTitle, <<"chromium">>, "passed", 0, 1000,
                 IsoString(100000), <<10, 0, 0, 0, 0>>),
      TestRecord("t2", ChromiumTitle, <<"chromium">>, "passed", 0, 9000,
                 IsoString(102000), <<12, 0, 0, 0, 0>>),
      TestRecord("t3", ChromiumTitle, <<"chromium">>, "passed", 1, 5000,
                 NoDate, <<8, 1, 1, 0, 0>>),
      TestRecord("t4", PlainTitle, <<"Firefox">>, "failed", 2, 0,
                 IsoString(100000), <<6, 3, 2, 1, 1>>),
      TestRecord("t5", PlainTitle, <<"Firefox">>, "skipped", 0, 2003,
                 NoDate, <<4, 1, 0, 0, 0>>),
      GarbageTest }

WithAccessibility(b, a) == b @@ [accessibility |-> a]

TestPool ==
    {WithAccessibility(b, a) : b \in BaseTests, a \in A11yPool}
    \cup {WithAccessibility(GarbageTest, A11yGarbage)}

-----------------------------------------------------------------------------
(* The payload builder on the summaries of up to MaxTests tests            *)

\* The variables of the operations a specification does not run: a result
\* not yet computed is Undefined, a computed one is Some(result).
NotRun == "not run"

IdleTier   == score = 0 /\ tier = NotRun
IdleLabel  == testCase = Undefined /\ labelled = Undefined
IdleEntry  == test = Undefined /\ benchEntry = Undefined
IdleReport == summary = Undefined /\ payload = Undefined /\ lastChange = NotRun
IdleCalls  == clock = 0 /\ sample = Undefined /\ stat = Undefined
IdleFixture == scan = Undefined /\ collector = Undefined
IdleReporter ==
    /\ testsById = <<>> /\ reported = <<>> /\ pending = {}
    /\ written = Undefined /\ pendingAtEnd = {}

Init ==
    /\ summary = SummaryOf("run", <<>>)
    /\ payload = buildPayload(summary)
    /\ lastChange = "Init"
    /\ IdleTier /\ IdleLabel /\ IdleEntry /\ IdleReporter /\ IdleCalls /\ IdleFixture

\* A summary of one more test is read and its payload built.
AddTest(t) ==
    /\ Len(summary.tests) < MaxTests
    /\ summary' = SummaryOf(summary.runId, Append(summary.tests, t))
    /\ payload' = buildPayload(summary')
    /\ lastChange' = "AddTest"
    /\ UNCHANGED <<score, tier, testCase, labelled, test, benchEntry, reporterVars, fixtureVars, callVars>>

\* The same run with other accessibility results: the tests keep every other
\* field, and the payload is built again.
ChangeAccessibility(f) ==
    /\ Len(summary.tests) > 0
    /\ LET tests == [i \in 1..Len(summary.tests) |->
                        [summary.tests[i] EXCEPT !.accessibility = f[i]]]
       IN  /\ tests # summary.tests
           /\ summary' = SummaryOf(summary.runId, tests)
    /\ payload' = buildPayload(summary')
    /\ lastChange' = "ChangeAccessibility"
    /\ UNCHANGED <<score, tier, testCase, labelled, test, benchEntry, reporterVars, fixtureVars, callVars>>

Next ==
    \/ \E t \in TestPool : AddTest(t)
    \/ \E f \in [1..Len(summary.tests) -> A11yPool] : ChangeAccessibility(f)

Spec == Init /\ [][Next]_vars

-----------------------------------------------------------------------------
(* tierFromScore on every score from -1.00 to 101.00                       *)

Scores == (-100)..10100

Tiers == {"Elite", "Strong", "Stable", "Watch", "Critical"}

InitTier ==
    /\ score \in Scores
    /\ tier = NotRun
    /\ IdleLabel /\ IdleEntry /\ IdleReport /\ IdleReporter /\ IdleCalls /\ IdleFixture

Classify ==
    /\ tier = NotRun
    /\ tier' = tierFromScore(score)
    /\ UNCHANGED <<score, testCase, labelled, test, benchEntry, summary, payload,
                   lastChange, reporterVars, fixtureVars, callVars>>

NextTier == Classify

SpecTier == InitTier /\ [][NextTier]_vars

\* The band of a tier, lower bound included.
InBand(t, s) ==
    CASE t = "Elite"    -> s >= 9000
      [] t = "Strong"   -> 7500 <= s /\ s < 9000
      [] t = "Stable"   -> 6000 <= s /\ s < 7500
      [] t = "Watch"    -> 4000 <= s /\ s < 6000
      [] t = "Critical" -> s < 4000

\* C5: tierFromScore maps every score to exactly one tier, the one whose
\* lower-inclusive band holds the score: Elite from 90, Strong from 75 to
\* below 90, Stable from 60 to below 75, Watch from 40 to below 60, Critical
\* below 40.
C5_TierPartition ==
    tier # NotRun =>
        /\ tier \in Tiers
        /\ Cardinality({t \in Tiers : InBand(t, score)}) = 1
        /\ \A t \in Tiers : (tier = t) <=> InBand(t, score)

\* A score on the lower bound of a band has been classified into that band.
C5_Witness == score = 6000 /\ tier = "Stable"

-----------------------------------------------------------------------------
(* The browser label of a test: onTestEnd's entry, then extractBrowserName *)

FileSegment == <<"docs.spec.ts">>
TestTitle   == <<"loads">>

\* project?.()?.name: undefined, or a name, '' among them.
ProjectNames ==
    {Undefined, Some(<<>>), Some(<<"chromium">>), Some(<<"Firefox">>),
     Some(<<"webkit">>), Some(<<"Mobile">>), Some(<<"default">>)}

TitlePaths ==
    { << <<>>, <<"chromium">>, FileSegment, TestTitle >>,
      << <<>>, <<"Firefox">>, FileSegment, TestTitle >>,
      << <<"firefox">>, FileSegment, TestTitle >>,
      << <<"WebKit">>, FileSegment, TestTitle >>,
      << <<" ", "chromium", " ">>, FileSegment, TestTitle >>,
      << <<"firefox">> \o Sep \o <<"nightly">>, TestTitle >>,
      << <<"Mobile">>, FileSegment, TestTitle >>,
      << FileSegment, TestTitle >>,
      << <<>>, <<"[", "edge", "]">>, FileSegment, TestTitle >>,
      << <<>>, <<"[">>, TestTitle >>,
      <<>> }

TestCases ==
    {[project |-> p, titlePath |-> tp, title |-> TestTitle] :
        p \in ProjectNames, tp \in TitlePaths}

\* The title and projectName of the entry onTestEnd stores for the test, and
\* the browser that buildBenchmarkTestEntry gives that entry.
LabelOf(t) ==
    LET e == [title |-> EntryTitle(t), projectName |-> resolveProjectName(t)]
    IN  [title |-> e.title, projectName |-> e.projectName,
         browser |-> extractBrowserName(e)]

InitLabel ==
    /\ testCase \in TestCases
    /\ labelled = Undefined
    /\ IdleTier /\ IdleEntry /\ IdleReport /\ IdleReporter /\ IdleCalls /\ IdleFixture

ResolveLabel ==
    /\ labelled = Undefined
    /\ labelled' = Some(LabelOf(testCase))
    /\ UNCHANGED <<score, tier, testCase, test, benchEntry, summary, payload,
                   lastChange, reporterVars, fixtureVars, callVars>>

NextLabel == ResolveLabel

SpecLabel == InitLabel /\ [][NextLabel]_vars

HasProject(t) == t.project # Undefined /\ t.project[1] # <<>>

\* The first segment of the title path, the empty segments left out.
FirstSegment(t) ==
    IF FilterBoolean(t.titlePath) = <<>> THEN <<>> ELSE FilterBoolean(t.titlePath)[1]

\* C2 as stated: the project name of the metadata comes first, then a known
\* engine as first title segment, then 'unknown'.
C2_MetadataFirst ==
    labelled # Undefined =>
        IF HasProject(testCase)
        THEN labelled[1].browser = toLowerCase(testCase.project[1])
        ELSE IF FirstSegment(testCase) \in KnownEngines
             THEN labelled[1].browser = FirstSegment(testCase)
        ELSE labelled[1].browser = <<"unknown">>

\* C2 amended: a known engine as first segment of the entry's title (what
\* precedes the first ' > ', trimmed and lower-cased) comes first; then the
\* entry's project name, lower-cased, unless it is empty or 'default'; then
\* 'unknown'.  With a project name P in the metadata and a different known
\* engine E as first title segment the label is E.
C2_TitleFirst ==
    labelled # Undefined =>
        LET l    == labelled[1]
            head == toLowerCase(trim(SplitHead(l.title)))
        IN  /\ head \in KnownEngines => l.browser = head
            /\ head \notin KnownEngines
               /\ l.projectName \notin {<<>>, <<"default">>}
               => l.browser = toLowerCase(l.projectName)
            /\ head \notin KnownEngines
               /\ l.projectName \in {<<>>, <<"default">>}
               => l.browser = <<"unknown">>
            /\ HasProject(testCase)
               /\ toLowerCase(FirstSegment(testCase)) \in KnownEngines
               => l.browser = toLowerCase(FirstSegment(testCase))

\* A test of project Mobile whose first title segment is firefox is labelled.
C2_Witness ==
    /\ labelled # Undefined
    /\ testCase.project = Some(<<"Mobile">>)
    /\ FirstSegment(testCase) = <<"firefox">>
    /\ labelled[1].browser = <<"firefox">>

-----------------------------------------------------------------------------
(* buildBenchmarkTestEntry on single test records                          *)

EntryDurations ==
    {-500, 0, 1, 1500, 2000, 2003, 4200, 8999, 9000, 14999, 15000, 20000}

EntryStatuses == {"passed", "failed", "timedOut", "skipped", "interrupted"}

EntryRetries == {-1, 0, 1, 7}

\* requestCount and the four error counters: 0, 2, 5, 9 and -1 error signals.
EntryCounts ==
    {<<5, 0, 0, 0, 0>>, <<5, 1, 0, 1, 0>>, <<5, 2, 1, 1, 1>>, <<5, 3, 2, 2, 2>>,
     <<5, -1, 0, 0, 0>>}

EntryInputs ==
    {WithAccessibility(
         TestRecord("t", ChromiumTitle, <<"chromium">>, st, r, d, IsoString(100000), c),
         a) :
        d \in EntryDurations, st \in EntryStatuses, r \in EntryRetries,
        c \in EntryCounts, a \in A11yPool \cup {A11yGarbage}}

InitEntry ==
    /\ test \in EntryInputs
    /\ benchEntry = Undefined
    /\ IdleTier /\ IdleLabel /\ IdleReport /\ IdleReporter /\ IdleCalls /\ IdleFixture

Enrich ==
    /\ benchEntry = Undefined
    /\ benchEntry' = Some(buildBenchmarkTestEntry(test))
    /\ UNCHANGED <<score, tier, testCase, labelled, test, summary, payload, lastChange,
                   reporterVars, fixtureVars, callVars>>

NextEntry == Enrich

SpecEntry == InitEntry /\ [][NextEntry]_vars

\* The composite of C3 on the sub-scores stored in the entry, with the duration
\* and quality sub-scores as C3 gives them.
CompositeOfEntry(e) ==
    /\ e.benchmarkScore =
           RoundDiv(35 * e.durationScore + 25 * e.reliabilityScore
                    + 15 * e.qualityScore + 10 * e.throughputScore
                    + 15 * e.accessibilityScore, 100)
    /\ e.durationScore = scoreLowerBetter(Frac(e.durationMs, 1), 1500, 9000)
    /\ e.qualityScore =
           scoreLowerBetter(Frac(e.requestFailureCount + e.responseErrorCount
                                 + e.consoleErrorCount + e.pageErrorCount, 1), 0, 6)

\* C3 as stated: the composite, with the throughput sub-score taken of the
\* exact quotient 60000 / max(1, durationMs).
C3_ExactThroughput ==
    benchEntry # Undefined =>
        LET e == benchEntry[1]
        IN  /\ CompositeOfEntry(e)
            /\ e.throughputScore =
                   scoreHigherBetter(Frac(60000, Max2(1, e.durationMs)), 4, 30)

\* C3 amended: benchmarkScore = round(durationScore*0.35 + reliabilityScore*0.25
\* + qualityScore*0.15 + throughputScore*0.10 + accessibilityScore*0.15) with
\* durationScore and qualityScore as stated and throughputScore =
\* scoreHigherBetter(round(60000 / max(1, durationMs)), 4, 30): the quotient is
\* rounded to two decimals before it is scored.
C3_RoundedThroughput ==
    benchEntry # Undefined =>
        LET e == benchEntry[1]
        IN  /\ CompositeOfEntry(e)
            /\ e.throughputScore =
                   scoreHigherBetter(
                       Frac(RoundDiv(100 * 60000, Max2(1, e.durationMs)), 100), 4, 30)

\* An entry whose throughput sub-score is that of the rounded quotient and not
\* that of the exact one (60000 / 2003 = 29.955..., scored as 29.96).
C3_Witness ==
    /\ benchEntry # Undefined
    /\ benchEntry[1].durationMs = 2003
    /\ benchEntry[1].throughputScore = 9985
    /\ scoreHigherBetter(Frac(60000, 2003), 4, 30) = 9983

-----------------------------------------------------------------------------
(* Claims about the payload                                                *)

InRange(x) == 0 <= x /\ x <= 10000

SubScoresInRange(r) ==
    /\ InRange(r.durationScore)
    /\ InRange(r.reliabilityScore)
    /\ InRange(r.qualityScore)
    /\ InRange(r.throughputScore)
    /\ InRange(r.accessibilityScore)
    /\ InRange(r.benchmarkScore)

\* The tests of a browser row.
Members(row) == GroupOf(payload.tests, row.browser)

Rows == {payload.browserRows[k] : k \in 1..Len(payload.browserRows)}

\* C4: the five sub-scores and the benchmarkScore of every test entry, of every
\* browser row and of the run lie in [0, 100], whatever the durations, retry
\* counts, error counts and violation counts are.
C4_ScoresInRange ==
    /\ \A i \in 1..Len(payload.tests) : SubScoresInRange(payload.tests[i])
    /\ \A r \in Rows : SubScoresInRange(r)
    /\ InRange(overallDurationScore(payload.tests))
    /\ InRange(overallReliabilityScore(payload.tests))
    /\ InRange(overallQualityScore(payload.tests))
    /\ InRange(overallThroughputScore(payload.tests))
    /\ InRange(payload.accessibility.accessibilityScore)
    /\ InRange(payload.overall.benchmarkScore)

\* A payload of a record with a negative duration and negative counts and of a
\* failed test on its second retry (15 - 2 * 15 < 0).
C4_Witness ==
    /\ Len(payload.tests) = 2
    /\ \E i \in 1..2 :
          /\ payload.tests[i].durationMs < 0
          /\ payload.tests[i].accessibility.critical < 0
          /\ payload.tests[i].accessibilityScore = 10000
    /\ \E i \in 1..2 :
          /\ payload.tests[i].status = "failed"
          /\ payload.tests[i].retry = 2
          /\ payload.tests[i].reliabilityScore = 0

\* The wall time of a list of entries: the span from the earliest finite start
\* to the latest end when there is a finite start and the span is positive,
\* the sum of the durations otherwise.
Elapsed(list) ==
    LET idx    == 1..Len(list)
        timed  == {i \in idx : list[i].startedAtMs # <<>>}
        latest == CHOOSE e \in {list[i].endedAtMs[1] : i \in idx} :
                      \A i \in idx : list[i].endedAtMs[1] <= e
        first  == CHOOSE b \in {list[i].startedAtMs[1] : i \in timed} :
                      \A i \in timed : b <= list[i].startedAtMs[1]
    IN  IF timed # {} /\ latest - first > 0
        THEN latest - first
        ELSE SumSeq([i \in idx |-> list[i].durationMs])

\* What the sub-scores of a row could be recomputed from: the statistics of
\* the raw fields of its tests.
RawAggregates(list) ==
    LET sum(field) == SumSeq([i \in 1..Len(list) |-> list[i].accessibility[field]])
    IN  [totalTests   |-> Len(list),
         durations    |-> SortAsc(MapField(list, "durationMs")),
         passed       |-> CountIn(list, "status", {"passed"}),
         retried      |-> CountRetried(list),
         errorSignals |-> SumSeq(MapField(list, "errorSignals")),
         elapsed      |-> Elapsed(list),
         violations   |-> sum("totalViolations"),
         critical     |-> sum("critical"),
         serious      |-> sum("serious"),
         moderate     |-> sum("moderate"),
         minor        |-> sum("minor")]

\* Two rows, of the payload before and after a step, whose browser and raw
\* aggregates are the same.
SameAggregates(r1, tests1, r2, tests2) ==
    /\ r1.browser = r2.browser
    /\ RawAggregates(GroupOf(tests1, r1.browser))
       = RawAggregates(GroupOf(tests2, r2.browser))

CompositeOfRow(r) ==
    r.benchmarkScore =
        RoundDiv(30 * r.durationScore + 25 * r.reliabilityScore + 15 * r.qualityScore
                 + 10 * r.throughputScore + 20 * r.accessibilityScore, 100)

\* scoreLowerBetter(meanDuration, 1500, 7000) * 6 + scoreLowerBetter(p95Duration,
\* 3000, 9500) * 4 over the tests of the group: ten times the duration sub-score
\* of C7.
TenTimesDuration(list) ==
    LET durations == MapField(list, "durationMs")
    IN  6 * scoreLowerBetter(Frac(SumSeq(durations), Len(list)), 1500, 7000)
        + 4 * scoreLowerBetter(Frac(percentile(durations, 95), 1), 3000, 9500)

\* (passRatePct * 7 + scoreLowerBetter(retryRatePct, 0, 40) * 3) * list.length:
\* ten times the reliability sub-score of C7, times the number of tests.
TenTimesReliabilityTimesN(list) ==
    70000 * CountIn(list, "status", {"passed"})
    + 3 * scoreLowerBetter(Frac(100 * CountRetried(list), Len(list)), 0, 40) * Len(list)

\* C7 as stated: the composite of a row, with the duration and reliability
\* sub-scores equal to the weighted sums themselves.
C7_UnroundedSubScores ==
    \A r \in Rows :
        /\ CompositeOfRow(r)
        /\ 10 * r.durationScore = TenTimesDuration(Members(r))
        /\ 10 * Len(Members(r)) * r.reliabilityScore
           = TenTimesReliabilityTimesN(Members(r))

\* C7 amended: for every browser row, benchmarkScore = round(durationScore*0.3
\* + reliabilityScore*0.25 + qualityScore*0.15 + throughputScore*0.10 +
\* accessibilityScore*0.20), with durationScore = round(scoreLowerBetter(
\* meanDuration,1500,7000)*0.6 + scoreLowerBetter(p95Duration,3000,9500)*0.4)
\* and reliabilityScore = round(passRatePct*0.7 + scoreLowerBetter(retryRatePct,
\* 0,40)*0.3), each rounded to two decimals, over the tests of the group only.
C7_RoundedSubScores ==
    \A r \in Rows :
        /\ CompositeOfRow(r)
        /\ r.durationScore = RoundDiv(TenTimesDuration(Members(r)), 10)
        /\ r.reliabilityScore
           = RoundDiv(TenTimesReliabilityTimesN(Members(r)), 10 * Len(Members(r)))

\* The row of two chromium tests of 1000 ms and 9000 ms: 36.36 * 0.6 + 7.69 *
\* 0.4 = 24.892, stored as 24.89.
C7_Witness ==
    \E r \in Rows :
        /\ r.totalTests = 2
        /\ SortAsc(MapField(Members(r), "durationMs")) = <<1000, 9000>>
        /\ TenTimesDuration(Members(r)) = 24892
        /\ r.durationScore = 2489

\* Two summaries that differ in nothing but the accessibility results of their
\* tests.
DifferOnlyInAccessibility(s1, s2) ==
    /\ Len(s1.tests) = Len(s2.tests)
    /\ s1.runId = s2.runId
    /\ \A i \in 1..Len(s1.tests) :
          [s1.tests[i] EXCEPT !.accessibility = A11yNone]
          = [s2.tests[i] EXCEPT !.accessibility = A11yNone]

C9_ElapsedTime ==
    /\ \A r \in Rows :
          LET tpm == Frac(60000 * Len(Members(r)), Elapsed(Members(r)))
          IN  /\ r.throughputTestsPerMin = Round2(tpm)
              /\ r.throughputScore = scoreHigherBetter(tpm, 5, 22)
    /\ Len(payload.tests) > 0
       => payload.overall.throughputTestsPerMin
          = Round2(Frac(60000 * Len(payload.tests), Elapsed(payload.tests)))

\* A row of two tests with timestamps whose span, 11 s, is not the sum of
\* their durations, 10 s: 2 tests in 11 s are 10.91 a minute.
C9_Witness ==
    \E r \in Rows :
        /\ r.totalTests = 2
        /\ \A k \in 1..2 : Members(r)[k].startedAtMs # <<>>
        /\ Elapsed(Members(r)) = 11000
        /\ SumSeq(MapField(Members(r), "durationMs")) = 10000
        /\ r.throughputTestsPerMin = Frac(1091, 100)

\* The records of a summary have non-negative durations and counters.
NonNegativeInput ==
    /\ Len(summary.tests) > 0
    /\ \A i \in 1..Len(summary.tests) :
          LET t == summary.tests[i]
          IN  /\ t.durationMs >= 0 /\ t.retry >= 0 /\ t.requestCount >= 0
              /\ t.requestFailureCount >= 0 /\ t.responseErrorCount >= 0
              /\ t.consoleErrorCount >= 0 /\ t.pageErrorCount >= 0
              /\ t.accessibility.critical >= 0

\* C10: for a non-empty input of non-negative durations and counters (durations
\* of 0 among them, timestamps present or missing) throughputTestsPerMin of
\* every browser row and of the run is a finite number.
C10_FiniteThroughput ==
    NonNegativeInput
    => /\ \A r \in Rows : IsFinite(r.throughputTestsPerMin)
       /\ IsFinite(payload.overall.throughputTestsPerMin)

-----------------------------------------------------------------------------
(* The reporter: onTestEnd, asynchronous, and onEnd                        *)

EMPTY_A11Y ==
    [totalViolations |-> 0, critical |-> 0, serious |-> 0, moderate |-> 0,
     minor |-> 0, violations |-> <<>>]

\* What the fixture attached: the metrics of a test with a failed request and
\* findings, and of a quiet test.
MetricsNoisy ==
    [requestCount |-> 7, requestFailureCount |-> 1, responseErrorCount |-> 1,
     avgResponseTimeMs |-> 120, p95ResponseTimeMs |-> 300,
     responseTimesMs |-> <<40, 300, 20>>,
     consoleErrors |-> <<"TypeError">>, pageErrors |-> <<>>,
     accessibility |-> A11yTwoCritical]
MetricsQuiet ==
    [requestCount |-> 3, requestFailureCount |-> 0, responseErrorCount |-> 0,
     avgResponseTimeMs |-> 0, p95ResponseTimeMs |-> 0,
     responseTimesMs |-> <<>>,
     consoleErrors |-> <<>>, pageErrors |-> <<>>,
     accessibility |-> A11yNone]

\* An attachment named observability-metrics with a path: a file that can be
\* read or not, whose text is the JSON of a metrics object.
Attachment(readable, metrics) ==
    [readable |-> readable, parses |-> TRUE, metrics |-> metrics]

\* The same with a text that JSON.parse rejects (a file cut short while the
\* metrics of a noisy test were written).
TruncatedAttachment == [readable |-> TRUE, parses |-> FALSE, metrics |-> MetricsNoisy]

readMetricsAttachment_noCatch(result) ==
    IF result.attachment = Undefined THEN Undefined
    ELSE Some(result.attachment[1].metrics)

\* readMetricsAttachment(result), once its read has settled: undefined when
\* fs.readFile or JSON.parse throws.
readMetricsAttachment(result) ==
    IF result.attachment = Undefined THEN Undefined
    ELSE IF ~result.attachment[1].readable THEN Undefined
    ELSE IF ~result.attachment[1].parses THEN Undefined
    ELSE Some(result.attachment[1].metrics)

\* The entry onTestEnd builds after the read.
EntryOf(t, result, metrics) ==
    LET has           == metrics # Undefined
        responseTimes == IF has THEN metrics[1].responseTimesMs ELSE <<>>
    IN  [id                  |-> t.id,
         title               |-> EntryTitle(t),
         projectName         |-> resolveProjectName(t),
         status              |-> result.status,
         durationMs          |-> result.duration,
         retry               |-> result.retry,
         startedAt           |-> IsoString(result.startTime),
         requestCount        |-> IF has THEN metrics[1].requestCount ELSE 0,
         requestFailureCount |-> IF has THEN metrics[1].requestFailureCount ELSE 0,
         responseErrorCount  |-> IF has THEN metrics[1].responseErrorCount ELSE 0,
         avgResponseTimeMs   |-> IF has THEN metrics[1].avgResponseTimeMs ELSE 0,
         p95ResponseTimeMs   |-> IF has THEN metrics[1].p95ResponseTimeMs ELSE 0,
         maxResponseTimeMs   |-> IF Len(responseTimes) > 0 THEN MaxSeq(responseTimes) ELSE 0,
         consoleErrorCount   |-> IF has THEN Len(metrics[1].consoleErrors) ELSE 0,
         pageErrorCount      |-> IF has THEN Len(metrics[1].pageErrors) ELSE 0,
         accessibility       |-> IF has THEN metrics[1].accessibility ELSE EMPTY_A11Y]

\* Map.set(key, value) on a Map kept as the sequence of its values in insertion
\* order: a key that is there keeps its place.
MapSet(map, entry) ==
    IF \E i \in 1..Len(map) : map[i].id = entry.id
    THEN [i \in 1..Len(map) |-> IF map[i].id = entry.id THEN entry ELSE map[i]]
    ELSE Append(map, entry)

\* Array.prototype.sort((left, right) => right.durationMs - left.durationMs):
\* stable, longest first.
RECURSIVE InsertByDuration_ascending(_, _)
InsertByDuration_ascending(sorted, e) ==
    IF sorted = <<>> THEN <<e>>
    ELSE IF Head(sorted).durationMs <= e.durationMs
         THEN <<Head(sorted)>> \o InsertByDuration_ascending(Tail(sorted), e)
         ELSE <<e>> \o sorted

RECURSIVE InsertByDuration(_, _)
InsertByDuration(sorted, e) ==
    IF sorted = <<>> THEN <<e>>
    ELSE IF Head(sorted).durationMs >= e.durationMs
         THEN <<Head(sorted)>> \o InsertByDuration(Tail(sorted), e)
         ELSE <<e>> \o sorted

RECURSIVE SortByDurationDesc(_)
SortByDurationDesc(list) ==
    IF list = <<>> THEN <<>>
    ELSE InsertByDuration(SortByDurationDesc(SubSeq(list, 1, Len(list) - 1)),
                          list[Len(list)])

\* The attempts a test may get: the first run and the retries.
MaxAttempts == 2

Ids == {"id-a", "id-b"}

\* The TestCase of an id.
TestCaseOf(id) ==
    IF id = "id-a"
    THEN [id |-> id, project |-> Some(<<"chromium">>), title |-> TestTitle,
          titlePath |-> << <<>>, <<"chromium">>, FileSegment, TestTitle >>]
    ELSE [id |-> id, project |-> Undefined, title |-> TestTitle,
          titlePath |-> << <<"firefox">>, FileSegment, TestTitle >>]

\* What an attempt may end with: status, duration and attachment.
Outcomes ==
    {[status |-> "failed", duration |-> 700,
      attachment |-> Some(Attachment(TRUE, MetricsNoisy))],
     [status |-> "passed", duration |-> 300,
      attachment |-> Some(Attachment(TRUE, MetricsQuiet))],
     [status |-> "timedOut", duration |-> 700,
      attachment |-> Some(Attachment(FALSE, MetricsQuiet))],
     [status |-> "passed", duration |-> 500, attachment |-> Undefined]}

\* The TestResult of the attempt numbered retry.
ResultOf(outcome, retry) ==
    [status |-> outcome.status, duration |-> outcome.duration, retry |-> retry,
     startTime |-> 100000 + 1000 * retry, attachment |-> outcome.attachment]

InitReporter ==
    /\ testsById = <<>>
    /\ reported = [id \in Ids |-> <<>>]
    /\ pending = {}
    /\ written = Undefined
    /\ pendingAtEnd = {}
    /\ IdleTier /\ IdleLabel /\ IdleEntry /\ IdleReport /\ IdleCalls /\ IdleFixture

\* The runner reports the end of an attempt of a test: the first one, or a
\* retry after an attempt that did not pass. onTestEnd runs up to its await.
\* Without an attachment path readMetricsAttachment returns at once and the
\* rest of onTestEnd runs before any other event; with one, the invocation
\* waits for the file read.
OnTestEnd(id, outcome) ==
    LET retry  == Len(reported[id])
        result == ResultOf(outcome, retry)
    IN  /\ written = Undefined
        /\ retry < MaxAttempts
        /\ retry > 0 => reported[id][retry].status # "passed"
        /\ reported' = [reported EXCEPT ![id] = Append(@, result)]
        /\ IF result.attachment = Undefined
           THEN /\ testsById' = MapSet(testsById,
                                       EntryOf(TestCaseOf(id), result, Undefined))
                /\ UNCHANGED pending
           ELSE /\ pending' = pending \cup {[id |-> id, result |-> result]}
                /\ UNCHANGED testsById
        /\ UNCHANGED <<written, pendingAtEnd, callVars, fixtureVars>>
        /\ UNCHANGED <<score, tier, testCase, labelled, test, benchEntry, summary,
                       payload, lastChange>>

\* The read of a pending invocation settles and the rest of its onTestEnd
\* runs: it builds the entry and stores it under the test id.
OnTestEndResume(inv) ==
    /\ inv \in pending
    /\ pending' = pending \ {inv}
    /\ testsById' = MapSet(testsById,
                           EntryOf(TestCaseOf(inv.id), inv.result,
                                   readMetricsAttachment(inv.result)))
    /\ UNCHANGED <<reported, written, pendingAtEnd, callVars, fixtureVars>>
    /\ UNCHANGED <<score, tier, testCase, labelled, test, benchEntry, summary,
                   payload, lastChange>>

\* onEnd: the runner calls it once, after the last onTestEnd call; it writes
\* the summary of the entries the Map holds, longest first.
OnEnd ==
    /\ written = Undefined
    /\ written' = Some(SummaryOf("run", SortByDurationDesc(testsById)))
    /\ pendingAtEnd' = pending
    /\ UNCHANGED <<testsById, reported, pending, callVars, fixtureVars>>
    /\ UNCHANGED <<score, tier, testCase, labelled, test, benchEntry, summary,
                   payload, lastChange>>

NextReporter ==
    \/ \E id \in Ids, outcome \in Outcomes : OnTestEnd(id, outcome)
    \/ \E inv \in pending : OnTestEndResume(inv)
    \/ OnEnd

SpecReporter == InitReporter /\ [][NextReporter]_vars

\* The entries of the written summary for a test id.
WrittenFor(id) ==
    {i \in 1..Len(written[1].tests) : written[1].tests[i].id = id}

\* C1: in every interleaving of the onTestEnd invocations, all of which have
\* stored their entry when onEnd builds the summary, the summary holds for
\* every reported test id exactly one entry, the entry of the final attempt:
\* the highest retry number reported for the id.
C1_LastAttemptWins ==
    (written # Undefined /\ pendingAtEnd = {})
    => \A id \in Ids :
          reported[id] # <<>>
          => /\ Cardinality(WrittenFor(id)) = 1
             /\ \A i \in WrittenFor(id) :
                   written[1].tests[i].retry = Len(reported[id]) - 1

-----------------------------------------------------------------------------
(* main on a summary file: buildPayload, once and again                    *)

\* What runAccessibilityScan returns for a list of violations: the number of
\* violations, and of those of each impact.
ScanOf_sumsNodes(violations) ==
    LET RECURSIVE nodesOf(_, _)
        nodesOf(impact, k) ==
            IF k = 0 THEN 0
            ELSE nodesOf(impact, k - 1)
                 + (IF violations[k].impact = impact THEN violations[k].nodes ELSE 0)
        n(impact) == nodesOf(impact, Len(violations))
    IN  [totalViolations |-> Len(violations), critical |-> n("critical"),
         serious |-> n("serious"), moderate |-> n("moderate"), minor |-> n("minor"),
         violations |-> violations]

ScanOf(violations) ==
    LET n(impact) == Cardinality({k \in 1..Len(violations) : violations[k].impact = impact})
    IN  [totalViolations |-> Len(violations), critical |-> n("critical"),
         serious |-> n("serious"), moderate |-> n("moderate"), minor |-> n("minor"),
         violations |-> violations]

\* Two scans of six rules each, twelve rules between them, with equal counts
\* among the rules.
ScanSix ==
    ScanOf(<<Violation("image-alt", "critical", 1), Violation("button-name", "critical", 2),
             Violation("link-name", "serious", 2), Violation("html-has-lang", "serious", 3),
             Violation("label", "critical", 1), Violation("heading-order", "moderate", 2)>>)
ScanOtherSix ==
    ScanOf(<<Violation("color-contrast", "serious", 2),
             Violation("landmark-main-is-top-level", "moderate", 1),
             Violation("list", "serious", 2), Violation("listitem", "serious", 2),
             Violation("region", "moderate", 1), Violation("meta-viewport", "critical", 1)>>)

FirefoxTitle == <<"firefox">> \o Sep \o <<"docs.spec.ts">> \o Sep \o <<"loads">>

\* A passed test of the browser of the title, without retry or error.
QuietTest(id, title, projectName, durationMs, a11y) ==
    WithAccessibility(TestRecord(id, title, projectName, "passed", 0, durationMs,
                                 IsoString(100000), <<4, 0, 0, 0, 0>>), a11y)

\* The records of a summary file: slow and fast tests of chromium, the same
\* fast tests of firefox, and one of no known browser.
BuildTests ==
    {QuietTest("b1", ChromiumTitle, <<"chromium">>, 9000, a) :
        a \in {A11yNone, ScanSix, ScanOtherSix}}
    \cup {QuietTest("b2", ChromiumTitle, <<"chromium">>, 1000, a) :
        a \in {A11yNone, A11yTwoCritical}}
    \cup {QuietTest("b3", FirefoxTitle, <<"firefox">>, 1000, a) :
        a \in {A11yNone, A11yTwoCritical, A11yFourCritical, ScanOtherSix}}
    \cup {QuietTest("b4", PlainTitle, <<"default">>, 5000, ScanSix)}

\* The tests of a summary file, and the times main may run at.
MaxBuildTests == 2
MaxClock == 2

RECURSIVE ListsUpTo(_, _)
ListsUpTo(pool, n) ==
    IF n = 0 THEN {<<>>}
    ELSE LET shorter == ListsUpTo(pool, n - 1)
         IN  shorter \cup {Append(l, t) : l \in shorter, t \in pool}

\* Thresholds a caller may want for a run, other than the program's own.
CallerThresholds ==
    [avgDurationTargetMs |-> 2000, p95DurationTargetMs |-> 5000,
     throughputTargetPerMin |-> 30, retryRateTargetPct |-> 10]

\* The summary file with a thresholds key added: what JSON.parse returns then.
WithThresholds(s) == [thresholds |-> CallerThresholds] @@ s

\* The summaries main may read: those the reporter writes, and the same with
\* thresholds put in by the caller.
BuildSummaries ==
    LET asWritten == {SummaryOf("run", l) : l \in ListsUpTo(BuildTests, MaxBuildTests)}
    IN  asWritten \cup {WithThresholds(s) : s \in asWritten}

InitBuild ==
    /\ summary \in BuildSummaries
    /\ payload = Undefined
    /\ lastChange = NotRun
    /\ IdleTier /\ IdleLabel /\ IdleEntry /\ IdleReporter /\ IdleCalls /\ IdleFixture

\* main: it reads the summary file and builds the payload, at a time of the
\* clock; it may run again later on the same file.
RunMain ==
    \E now \in (clock + 1)..MaxClock :
        /\ clock' = now
        /\ payload' = buildPayloadAt(summary, now)
        /\ summary' = summaryAfterBuild(summary)
        /\ lastChange' = IF lastChange = NotRun THEN "buildPayload" ELSE "buildPayload again"
        /\ UNCHANGED <<score, tier, testCase, labelled, test, benchEntry, reporterVars, fixtureVars,
                       sample, stat>>

NextBuild == RunMain

SpecBuild == InitBuild /\ [][NextBuild]_vars

Built == lastChange # NotRun

\* Where the group of a browser first appears in the test list.
FirstIndex(browser) ==
    CHOOSE i \in 1..Len(payload.tests) :
        /\ payload.tests[i].browser = browser
        /\ \A k \in 1..(i - 1) : payload.tests[k].browser # browser

\* C11: the browser rows of the payload are ordered by benchmarkScore
\* non-increasing, and rows with equal scores keep the order in which their
\* group first appeared in the test list.
C11_RowsOrdered ==
    Built =>
        \A i, j \in 1..Len(payload.browserRows) :
            i < j =>
                LET a == payload.browserRows[i]
                    b == payload.browserRows[j]
                IN  /\ a.benchmarkScore >= b.benchmarkScore
                    /\ a.benchmarkScore = b.benchmarkScore
                       => FirstIndex(a.browser) < FirstIndex(b.browser)

\* Two rows with the same score: firefox is first, as in the test list.
C11_Witness ==
    /\ Built
    /\ Len(payload.browserRows) = 2
    /\ payload.browserRows[1].benchmarkScore = payload.browserRows[2].benchmarkScore
    /\ payload.browserRows[1].browser = <<"firefox">>
    /\ payload.browserRows[2].browser = <<"chromium">>
    /\ payload.tests[1].browser = <<"firefox">>

\* A list of records or entries is ordered by durationMs non-increasing.
SlowestFirst(list) ==
    \A i, j \in 1..Len(list) : i < j => list[i].durationMs >= list[j].durationMs

\* How often a record occurs in a list.
Occurrences(list, r) == Cardinality({i \in 1..Len(list) : list[i] = r})

\* The tests list of the payload is the tests list of the summary, record by
\* record in the same order, each with its computed fields added.
KeepsSummaryOrder ==
    /\ Len(payload.tests) = Len(summary.tests)
    /\ \A i \in 1..Len(summary.tests) :
          \A field \in DOMAIN summary.tests[i] :
              payload.tests[i][field] = summary.tests[i][field]

\* C12 as stated: whatever the order of the records is, the list onEnd writes
\* and the tests list of the payload buildPayload builds of them are ordered
\* by durationMs non-increasing.
C12_BothSlowestFirst ==
    Built =>
        /\ SlowestFirst(SortByDurationDesc(summary.tests))
        /\ SlowestFirst(payload.tests)

\* C12 amended: the list of the reporter's summary is ordered by durationMs
\* non-increasing whatever order the entries were collected in, and holds the
\* same entries; buildPayload keeps the order of the tests of the summary it
\* is given, so the tests list of the payload is ordered slowest first when
\* that of the summary is, as it is for a summary the reporter wrote.
C12_ReporterSortsPayloadKeeps ==
    Built =>
        LET written_tests == SortByDurationDesc(summary.tests)
        IN  /\ SlowestFirst(written_tests)
            /\ \A i \in 1..Len(summary.tests) :
                  Occurrences(written_tests, summary.tests[i])
                  = Occurrences(summary.tests, summary.tests[i])
            /\ KeepsSummaryOrder
            /\ SlowestFirst(summary.tests) => SlowestFirst(payload.tests)
            /\ SlowestFirst(buildPayload(SummaryOf(summary.runId, written_tests)).tests)

\* A summary of a fast test followed by a slow one: onEnd's sort would put the
\* slow one first, the payload has them as the summary has.
C12_Witness ==
    /\ Built
    /\ MapField(summary.tests, "durationMs") = <<1000, 9000>>
    /\ MapField(payload.tests, "durationMs") = <<1000, 9000>>
    /\ MapField(SortByDurationDesc(summary.tests), "durationMs") = <<9000, 1000>>

\* The violations of all tests of the summary, in the order of the tests.
Occurred ==
    Flatten([i \in 1..Len(summary.tests) |-> summary.tests[i].accessibility.violations])

\* The affected nodes of a rule, summed over every occurrence in every test.
NodesOf(id) ==
    SumSeq([k \in 1..Len(Occurred) |-> IF Occurred[k].id = id THEN Occurred[k].nodes ELSE 0])

\* How often a rule occurs.
TimesOccurred(id) == Cardinality({k \in 1..Len(Occurred) : Occurred[k].id = id})

\* C13: across all tests of a run, each rule id appears in at most one rollup
\* entry, and the count of the entry is the sum of the node counts of every
\* occurrence of the rule in every test, not the number of occurrences.
C13_RollupSumsNodes ==
    Built =>
        LET top == payload.accessibility.topViolations
        IN  \A k \in 1..Len(top) :
                /\ \A other \in 1..Len(top) : top[other].id = top[k].id => other = k
                /\ TimesOccurred(top[k].id) > 0
                /\ top[k].count = NodesOf(top[k].id)

\* image-alt with 3 nodes on one test and 2 on another: one entry, count 5.
C13_Witness ==
    /\ Built
    /\ Len(summary.tests) = 2
    /\ TimesOccurred("image-alt") = 2
    /\ \E k \in 1..Len(payload.accessibility.topViolations) :
          /\ payload.accessibility.topViolations[k].id = "image-alt"
          /\ payload.accessibility.topViolations[k].count = 5

\* The rules that occur, and where a rule is first encountered in the scan of
\* the tests.
RulesOccurred == {Occurred[k].id : k \in 1..Len(Occurred)}

FirstSeen(id) ==
    CHOOSE k \in 1..Len(Occurred) :
        /\ Occurred[k].id = id
        /\ \A before \in 1..(k - 1) : Occurred[before].id # id

\* C14: topViolations holds at most 10 entries (all rules when there are at
\* most 10), ordered by summed count non-increasing; every rule left out has a
\* summed count <= that of every rule kept; rules with equal counts appear,
\* and are cut off, in the order in which they were first encountered.
C14_TopTen ==
    Built =>
        LET top  == payload.accessibility.topViolations
            kept == {top[k].id : k \in 1..Len(top)}
        IN  /\ Len(top) <= 10
            /\ Len(top) = Min2(10, Cardinality(RulesOccurred))
            /\ kept \subseteq RulesOccurred
            /\ \A i, j \in 1..Len(top) :
                  i < j => /\ top[i].count >= top[j].count
                           /\ top[i].count = top[j].count
                              => FirstSeen(top[i].id) < FirstSeen(top[j].id)
            /\ \A out \in RulesOccurred \ kept :
                  \A k \in 1..Len(top) :
                      /\ NodesOf(out) <= top[k].count
                      /\ NodesOf(out) = top[k].count
                         => FirstSeen(top[k].id) < FirstSeen(out)

\* Twelve rules, ten kept: a rule left out has the count of the last rule
\* kept and was encountered after it.
C14_Witness ==
    /\ Built
    /\ Cardinality(RulesOccurred) = 12
    /\ Len(payload.accessibility.topViolations) = 10
    /\ \E out \in RulesOccurred :
          /\ \A k \in 1..10 : payload.accessibility.topViolations[k].id # out
          /\ NodesOf(out) = payload.accessibility.topViolations[10].count
          /\ FirstSeen(payload.accessibility.topViolations[10].id) < FirstSeen(out)

\* A payload without its generatedAt.
WithoutGeneratedAt(p) == [field \in DOMAIN p \ {"generatedAt"} |-> p[field]]

C16_InputUnchanged == [][summary' = summary]_vars

\* After a run that summed the nodes of image-alt of two tests to 5, the
\* violation objects of the summary still have their 3 and 2 nodes.
C16_Witness ==
    /\ Built
    /\ Len(summary.tests) = 2
    /\ \A i \in 1..2 : Len(summary.tests[i].accessibility.violations) > 0
    /\ summary.tests[1].accessibility.violations[1] = Violation("image-alt", "critical", 3)
    /\ summary.tests[2].accessibility.violations[1] = Violation("image-alt", "critical", 2)
    /\ payload.accessibility.topViolations[1].id = "image-alt"
    /\ payload.accessibility.topViolations[1].count = 5

RowMembers(browser) ==
    {i \in 1..Len(payload.tests) : payload.tests[i].browser = browser}

RowMemberSum(browser) ==
    SumSeq([i \in 1..Len(payload.tests) |->
               IF i \in RowMembers(browser) THEN payload.tests[i].benchmarkScore ELSE 0])

\* One browser group of a slow test without violations and a fast test with
\* two critical ones.
SlowCleanFastFlawed ==
    /\ Len(summary.tests) = 2
    /\ summary.tests[1].durationMs = 9000
    /\ summary.tests[1].accessibility.totalViolations = 0
    /\ summary.tests[2].durationMs = 1000
    /\ summary.tests[2].accessibility.critical = 2
    /\ Len(payload.browserRows) = 1

\* C24: the composite of a browser row need not be the mean of the composites
\* of its tests: for a slow test without violations and a fast test with
\* violations in one group the two differ, by more than rounding.
C24_RowIsNotTheMean ==
    (Built /\ SlowCleanFastFlawed) =>
        LET row == payload.browserRows[1]
            n   == Cardinality(RowMembers(row.browser))
        IN  /\ n = 2
            /\ row.benchmarkScore * n # RowMemberSum(row.browser)
            /\ row.benchmarkScore # RoundDiv(RowMemberSum(row.browser), n)

\* The payload of that group.
C24_Witness ==
    /\ Built
    /\ SlowCleanFastFlawed
    /\ payload.browserRows[1].browser = <<"chromium">>
    /\ RowMembers(<<"chromium">>) = {1, 2}
    /\ payload.browserRows[1].benchmarkScore = 6597
    /\ payload.tests[1].benchmarkScore = 5603
    /\ payload.tests[2].benchmarkScore = 9040

-----------------------------------------------------------------------------
(* Further claims about buildBenchmarkTestEntry (SpecEntry)                *)

\* C25: the reliability score of a test is clamp(base - 15 * retry, 0, 100)
\* of the record's own retry number, base being 100 for passed, 70 for
\* skipped and 15 for any other status: a passed test scores 100 at its first
\* attempt and 85 after one retry, a failed or timed-out one 15 without
\* retry and 0 with one or more.
C25_ReliabilityFromRetry ==
    benchEntry # Undefined =>
        LET got  == benchEntry[1].reliabilityScore
            base == CASE test.status = "passed"  -> 100
                      [] test.status = "skipped" -> 70
                      [] OTHER                   -> 15
        IN  /\ got = 100 * Min2(100, Max2(0, base - 15 * test.retry))
            /\ (test.status = "passed" /\ test.retry = 0) => got = 10000
            /\ (test.status = "passed" /\ test.retry = 1) => got = 8500
            /\ (test.status \in {"failed", "timedOut"} /\ test.retry = 0) => got = 1500
            /\ (test.status \in {"failed", "timedOut"} /\ test.retry >= 1) => got = 0

\* The entry of a test that passed at its first retry.
C25_Witness ==
    /\ benchEntry # Undefined
    /\ test.status = "passed"
    /\ test.retry = 1
    /\ benchEntry[1].retry = 1
    /\ benchEntry[1].reliabilityScore = 8500

-----------------------------------------------------------------------------
(* The statistics helpers on their own: percentile, average, stdDev and    *)
(* the response-time figures the fixture derives from them.                *)

MaxLen == 25
MaxShortLen == 3

ShortValues == {100, 250, 175}

\* Every array of at most MaxShortLen response times, in every order.
ShortSamples == ListsUpTo(ShortValues, MaxShortLen)

\* n distinct values, largest first, and n values in a scattered order with
\* repeats.
Descending(n) == [i \in 1..n |-> 10 * (n - i + 1)]
Scattered(n)  == [i \in 1..n |-> 10 * ((7 * i) % (n + 1))]

Samples ==
    ShortSamples \cup {Descending(n) : n \in 0..MaxLen}
                 \cup {Scattered(n) : n \in 0..MaxLen}

Percentiles == 0..100

\* A call percentile(values, p): what it returns and the caller's array after
\* it.  The function sorts the copy [...values], the array itself is only read.
percentileCall(values, p) ==
    [returned |-> percentile(values, p), values |-> values]

\* The two response-time figures of the fixture's metrics object.
responseTimeMetrics(responseTimes) ==
    [avgResponseTimeMs |-> round(average(responseTimes)),
     p95ResponseTimeMs |-> round(Frac(percentile(responseTimes, 95), 1))]

InitSamples ==
    /\ sample \in [values : Samples, p : Percentiles]
    /\ stat = Undefined
    /\ clock = 0
    /\ IdleTier /\ IdleLabel /\ IdleEntry /\ IdleReport /\ IdleReporter /\ IdleFixture

CallPercentile ==
    /\ stat = Undefined
    /\ LET call == percentileCall(sample.values, sample.p)
       IN  /\ stat' = [fn |-> "percentile", of |-> sample.values, p |-> sample.p,
                       returned |-> call.returned]
           /\ sample' = [sample EXCEPT !.values = call.values]
    /\ UNCHANGED <<score, tier, testCase, labelled, test, benchEntry, summary,
                   payload, lastChange, reporterVars, fixtureVars, clock>>

CallAverage ==
    /\ stat = Undefined
    /\ stat' = [fn |-> "average", of |-> sample.values,
                returned |-> average(sample.values)]
    /\ UNCHANGED <<score, tier, testCase, labelled, test, benchEntry, summary,
                   payload, lastChange, reporterVars, fixtureVars, clock, sample>>

CallStdDev ==
    /\ stat = Undefined
    /\ stat' = [fn |-> "stdDev", of |-> sample.values,
                returned |-> stdDev(sample.values)]
    /\ UNCHANGED <<score, tier, testCase, labelled, test, benchEntry, summary,
                   payload, lastChange, reporterVars, fixtureVars, clock, sample>>

\* The fixture building its metrics object from the responseTimes it collected.
BuildMetrics ==
    /\ stat = Undefined
    /\ stat' = [fn |-> "metrics", of |-> sample.values,
                returned |-> responseTimeMetrics(sample.values)]
    /\ UNCHANGED <<score, tier, testCase, labelled, test, benchEntry, summary,
                   payload, lastChange, reporterVars, fixtureVars, clock, sample>>

NextSamples == CallPercentile \/ CallAverage \/ CallStdDev \/ BuildMetrics

SpecSamples == InitSamples /\ [][NextSamples]_vars

Called(fn) == stat # Undefined /\ stat.fn = fn

\* The nearest-rank percentile: the element of rank ceil(p * n / 100) of the
\* ascending order, ranks below 1 and above n clamped.
NearestRank(xs, p) ==
    SortAsc(xs)[clamp(CeilDiv(p * Len(xs), 100) - 1, 0, Len(xs) - 1) + 1]

C17_EndsAndOrder ==
    (Called("percentile") /\ Len(stat.of) > 0) =>
        /\ stat.p = 100 => stat.returned = MaxSeq(stat.of)
        /\ stat.p = 0 => stat.returned = MinSeq(stat.of)
        /\ sample.values = stat.of

\* The ranks the program asks for, 50, 90, 95 and 99, are the nearest ranks.
C17_RanksInUse ==
    (Called("percentile") /\ Len(stat.of) > 0 /\ stat.p \in {50, 90, 95, 99}) =>
        stat.returned = NearestRank(stat.of, stat.p)

IsZero(f) == f.den > 0 /\ f.num = 0

\* C18: empty samples give 0 and raise nothing: percentile([], p) = 0 for
\* every p, average([]) = 0 and stdDev([]) = 0, and the metrics of a test
\* with no completed request have avgResponseTimeMs = 0 and
\* p95ResponseTimeMs = 0.
C18_EmptyGivesZero ==
    (stat # Undefined /\ stat.of = <<>>) =>
        CASE stat.fn = "percentile" -> stat.returned = 0
          [] stat.fn = "average"    -> IsZero(stat.returned)
          [] stat.fn = "stdDev"     -> IsZero(stat.returned.squared)
          [] stat.fn = "metrics"    -> /\ stat.returned.avgResponseTimeMs = 0
                                       /\ stat.returned.p95ResponseTimeMs = 0

\* The metrics of a test whose responseTimes array stayed empty.
C18_Witness ==
    /\ Called("metrics")
    /\ stat.of = <<>>
    /\ stat.returned = [avgResponseTimeMs |-> 0, p95ResponseTimeMs |-> 0]

-----------------------------------------------------------------------------
(* scoreLowerBetter on its own: values below, at, between, at and above    *)
(* the two ends of a scale, and the two infinities.                        *)

\* The scales the program scores on, [target, max], and two more.
Scales ==
    {<<1500, 9000>>, <<0, 6>>, <<1500, 7000>>, <<3000, 9500>>, <<0, 40>>,
     <<0, 4>>, <<-5, 5>>, <<0, 1>>}

GridSteps == 12

\* The values target + k * (max - target) / (2 * GridSteps) from two steps
\* below target to two steps above max, the middle of the scale among them,
\* and the infinities.
ValuesOn(scale) ==
    {Frac(scale[1] * 2 * GridSteps + k * (scale[2] - scale[1]), 2 * GridSteps) :
        k \in (-2)..(2 * GridSteps + 2)} \cup {Frac(1, 0), Frac(-1, 0)}

InitScore ==
    /\ \E scale \in Scales : \E value \in ValuesOn(scale) :
           sample = [value |-> value, target |-> scale[1], max |-> scale[2]]
    /\ stat = Undefined
    /\ clock = 0
    /\ IdleTier /\ IdleLabel /\ IdleEntry /\ IdleReport /\ IdleReporter /\ IdleFixture

CallScoreLowerBetter ==
    /\ stat = Undefined
    /\ stat' = [fn |-> "scoreLowerBetter",
                returned |-> scoreLowerBetter(sample.value, sample.target, sample.max)]
    /\ UNCHANGED <<score, tier, testCase, labelled, test, benchEntry, summary,
                   payload, lastChange, reporterVars, fixtureVars, clock, sample>>

NextScore == CallScoreLowerBetter

SpecScore == InitScore /\ [][NextScore]_vars

\* a <= b for two fractions, the infinities included.
FracLe(a, b) == a.num * b.den <= b.num * a.den

\* C19: on a scale with target < max, scoreLowerBetter is 100 for a value at
\* or below target, 0 for a value at or above max, and from target to max it
\* never rises: a larger value of that range never scores more.
C19_LowerIsBetter ==
    Called("scoreLowerBetter") =>
        LET v == sample.value
            t == sample.target
            m == sample.max
        IN  /\ FracLeq(v, t) => stat.returned = 10000
            /\ FracGeq(v, m) => stat.returned = 0
            /\ (FracGeq(v, t) /\ FracLeq(v, m)) =>
                   \A w \in ValuesOn(<<t, m>>) :
                       (FracLe(v, w) /\ FracLeq(w, m)) =>
                           scoreLowerBetter(w, t, m) <= stat.returned

\* A duration of 5250 ms, half way on the scale 1500..9000, scored 50, less
\* than the 4625 ms before it and more than the 5875 ms after it.
C19_Witness ==
    /\ Called("scoreLowerBetter")
    /\ sample.target = 1500 /\ sample.max = 9000
    /\ sample.value.den > 0 /\ sample.value.num = 5250 * sample.value.den
    /\ stat.returned = 5000
    /\ scoreLowerBetter(Frac(4625, 1), 1500, 9000) = 5833
    /\ scoreLowerBetter(Frac(5875, 1), 1500, 9000) = 4167

-----------------------------------------------------------------------------
(* a11yScore on its own: every combination of the four severity counts up  *)
(* to MaxCount.                                                            *)

MaxCount == 4

Severities == {"critical", "serious", "moderate", "minor"}

Counts == [Severities -> 0..MaxCount]

InitA11y ==
    /\ sample \in Counts
    /\ stat = Undefined
    /\ clock = 0
    /\ IdleTier /\ IdleLabel /\ IdleEntry /\ IdleReport /\ IdleReporter /\ IdleFixture

CallA11yScore ==
    /\ stat = Undefined
    /\ stat' = [fn |-> "a11yScore", returned |-> a11yScore(sample)]
    /\ UNCHANGED <<score, tier, testCase, labelled, test, benchEntry, summary,
                   payload, lastChange, reporterVars, fixtureVars, clock, sample>>

NextA11y == CallA11yScore

SpecA11y == InitA11y /\ [][NextA11y]_vars

PenaltyOf(a) == a.critical * 4 + a.serious * 3 + a.moderate * 2 + a.minor * 1

Only(severity, n) == [s \in Severities |-> IF s = severity THEN n ELSE 0]

\* C20: the accessibility score is clamp(100 - 8 * penalty, 0, 100) with
\* penalty = 4 critical + 3 serious + 2 moderate + minor: 100 when the four
\* counts are zero, 36 for two critical findings alone, 4 for three, 0 from a
\* penalty of 13 on, and one more finding of any severity never raises it.
C20_PenaltyCurve ==
    Called("a11yScore") =>
        /\ stat.returned = Min2(10000, Max2(0, 10000 - 800 * PenaltyOf(sample)))
        /\ sample = Only("critical", 0) => stat.returned = 10000
        /\ sample = Only("critical", 2) => stat.returned = 3600
        /\ sample = Only("critical", 3) => stat.returned = 400
        /\ PenaltyOf(sample) >= 13 => stat.returned = 0
        /\ \A s \in Severities :
               a11yScore([sample EXCEPT ![s] = @ + 1]) <= stat.returned

\* Three critical findings alone scored 4, and a minor one more brings it to 0.
C20_Witness ==
    /\ Called("a11yScore")
    /\ sample = Only("critical", 3)
    /\ stat.returned = 400
    /\ a11yScore([sample EXCEPT !["minor"] = 1]) = 0

-----------------------------------------------------------------------------
(* runAccessibilityScan: eight page evaluations one after the other, each  *)
(* of which may find nothing, find something, or throw.                    *)

\* The eight rules in the order they are checked.  A rule of kind "count"
\* fires when its evaluation counts at least one element and reports that
\* many nodes; a rule of kind "flag" fires on a true evaluation (a missing
\* lang attribute, a missing main landmark) and reports one node.
ScanRules ==
    << [id |-> "image-alt",                  impact |-> "critical", kind |-> "count"],
       [id |-> "button-name",                impact |-> "critical", kind |-> "count"],
       [id |-> "link-name",                  impact |-> "serious",  kind |-> "count"],
       [id |-> "html-has-lang",              impact |-> "serious",  kind |-> "flag"],
       [id |-> "label",                      impact |-> "critical", kind |-> "count"],
       [id |-> "heading-order",              impact |-> "moderate", kind |-> "count"],
       [id |-> "color-contrast",             impact |-> "serious",  kind |-> "count"],
       [id |-> "landmark-main-is-top-level", impact |-> "moderate", kind |-> "flag"] >>

MaxNodes == 2

\* What the evaluation of a rule can resolve to: a number of elements, or for
\* a flag 1 (the defect is there) or 0.
Evaluations(rule) == IF rule.kind = "count" THEN 0..MaxNodes ELSE 0..1

\* violations after the rule's check: one more object when the rule fires.
pushIfFired(violations, rule, found) ==
    IF found > 0
    THEN Append(violations,
                Violation(rule.id, rule.impact, IF rule.kind = "count" THEN found ELSE 1))
    ELSE violations

InitScan ==
    /\ scan = [rule |-> 1, violations |-> <<>>, threw |-> FALSE, returned |-> Undefined]
    /\ collector = Undefined
    /\ IdleTier /\ IdleLabel /\ IdleEntry /\ IdleReport /\ IdleReporter /\ IdleCalls

\* The evaluation the scan awaits resolves: the rule's check runs, and the
\* next evaluation starts or, after the eighth, the result is returned.
EvaluateResolves ==
    /\ scan.returned = Undefined
    /\ \E found \in Evaluations(ScanRules[scan.rule]) :
           LET violations == pushIfFired(scan.violations, ScanRules[scan.rule], found)
           IN  scan' = IF scan.rule < Len(ScanRules)
                       THEN [scan EXCEPT !.rule = @ + 1, !.violations = violations]
                       ELSE [scan EXCEPT !.violations = violations,
                                         !.returned = Some(ScanOf(violations))]
    /\ UNCHANGED <<score, tier, testCase, labelled, test, benchEntry, summary,
                   payload, lastChange, reporterVars, callVars, collector>>

\* The evaluation the scan awaits throws: the catch swallows it and the
\* violations collected so far are returned.
EvaluateThrows ==
    /\ scan.returned = Undefined
    /\ scan' = [scan EXCEPT !.threw = TRUE, !.returned = Some(ScanOf(scan.violations))]
    /\ UNCHANGED <<score, tier, testCase, labelled, test, benchEntry, summary,
                   payload, lastChange, reporterVars, callVars, collector>>

NextScan == EvaluateResolves \/ EvaluateThrows

SpecScan == InitScan /\ [][NextScan]_vars

\* C21: every result of runAccessibilityScan has totalViolations = critical
\* + serious + moderate + minor = the length of its violations list, and no
\* rule id twice in the list, whichever rules fired and also when an
\* evaluation threw partway.
C21_CountsAreFindings ==
    scan.returned # Undefined =>
        LET r == scan.returned[1]
        IN  /\ r.totalViolations = r.critical + r.serious + r.moderate + r.minor
            /\ r.totalViolations = Len(r.violations)
            /\ \A i, j \in 1..Len(r.violations) :
                   r.violations[i].id = r.violations[j].id => i = j

\* A scan that found two images and an empty link, then lost the page at the
\* fourth rule: two findings, one critical and one serious, three nodes.
C21_Witness ==
    /\ scan.returned # Undefined
    /\ scan.threw
    /\ scan.rule = 4
    /\ scan.returned[1].violations =
           <<Violation("image-alt", "critical", 2), Violation("link-name", "serious", 1)>>
    /\ scan.returned[1].totalViolations = 2
    /\ scan.returned[1].critical = 1 /\ scan.returned[1].serious = 1

\* The test ids onTestEnd was invoked for.
ReportedIds == {id \in Ids : Len(reported[id]) > 0}

\* C27: every test id onTestEnd was invoked for before onEnd has exactly one
\* entry in the summary onEnd writes, and overall.totalTests is the number of
\* those ids, also when an invocation of onTestEnd still awaits its
\* attachment when onEnd starts.
C27_EveryReportedIdOnce ==
    written # Undefined =>
        /\ \A id \in ReportedIds : Cardinality(WrittenFor(id)) = 1
        /\ written[1].overall.totalTests = Cardinality(ReportedIds)

\* The same for the runs in which no invocation was waiting when onEnd
\* started.
C27_OnceWhenNoneWaiting ==
    (written # Undefined /\ pendingAtEnd = {}) =>
        /\ \A id \in ReportedIds : Cardinality(WrittenFor(id)) = 1
        /\ written[1].overall.totalTests = Cardinality(ReportedIds)

-----------------------------------------------------------------------------
(* One onTestEnd call on every kind of result: with and without            *)
(* attachment, with a file that reads or not, with JSON or not.            *)

Statuses == {"passed", "failed", "timedOut", "skipped", "interrupted"}

Attachments ==
    {Undefined, Some(TruncatedAttachment)}
        \cup {Some(Attachment(readable, metrics)) :
                 readable \in BOOLEAN, metrics \in {MetricsNoisy, MetricsQuiet}}

AttachmentOutcomes ==
    [status : Statuses, duration : {300, 700}, attachment : Attachments]

\* The invocation of onTestEnd for the attempt numbered retry is at its await;
\* the attempts before it ended the same way.
InitAttachment ==
    /\ \E id \in Ids, outcome \in AttachmentOutcomes, retry \in 0..(MaxAttempts - 1) :
           /\ retry > 0 => outcome.status # "passed"
           /\ reported = [i \in Ids |->
                             IF i = id
                             THEN [k \in 1..(retry + 1) |-> ResultOf(outcome, k - 1)]
                             ELSE <<>>]
           /\ pending = {[id |-> id, result |-> ResultOf(outcome, retry)]}
    /\ testsById = <<>>
    /\ written = Undefined
    /\ pendingAtEnd = {}
    /\ IdleTier /\ IdleLabel /\ IdleEntry /\ IdleReport /\ IdleCalls /\ IdleFixture

NextAttachment == \E inv \in pending : OnTestEndResume(inv)

SpecAttachment == InitAttachment /\ [][NextAttachment]_vars

\* The TestResult an entry of the Map was built from.
ResultBehind(entry) == reported[entry.id][entry.retry + 1]

\* The result carries metrics that can be used: an attachment whose file reads
\* and holds valid JSON.
HasUsableMetrics(result) ==
    /\ result.attachment # Undefined
    /\ result.attachment[1].readable
    /\ result.attachment[1].parses

ObservationFields ==
    {"requestCount", "requestFailureCount", "responseErrorCount",
     "avgResponseTimeMs", "p95ResponseTimeMs", "maxResponseTimeMs",
     "consoleErrorCount", "pageErrorCount"}

\* C22: the entry stored for a result without a usable observability-metrics
\* attachment (none, a file that cannot be read, a text that is not JSON) has
\* every one of its eight observation fields present and 0, and the all-zero
\* accessibility result with an empty violations list.
C22_ZeroWithoutMetrics ==
    \A i \in 1..Len(testsById) :
        ~HasUsableMetrics(ResultBehind(testsById[i])) =>
            /\ ObservationFields \subseteq DOMAIN testsById[i]
            /\ \A f \in ObservationFields : testsById[i][f] = 0
            /\ testsById[i].accessibility =
                   [totalViolations |-> 0, critical |-> 0, serious |-> 0,
                    moderate |-> 0, minor |-> 0, violations |-> <<>>]

\* The Map holds the entry of a test whose attachment was not JSON, all zeros
\* although the file came from a test with seven requests.
C22_Witness ==
    /\ Len(testsById) = 1
    /\ ResultBehind(testsById[1]).attachment = Some(TruncatedAttachment)
    /\ TruncatedAttachment.metrics.requestCount = 7
    /\ testsById[1].requestCount = 0
    /\ testsById[1].accessibility.violations = <<>>

-----------------------------------------------------------------------------
(* The fixture's collector: the listeners for request, requestfinished and *)
(* requestfailed of one test.  A Request object is the number of the       *)
(* request event that announced it; the Map is a function on the in-flight *)
(* ones.  sampledFor and settled are history: the request behind each      *)
(* sample, and the requests a requestfinished or requestfailed came for.   *)

MaxRequests == 3

\* Date.now() when the clock shows t: milliseconds since 1970, never 0.
DateNow(t) == 1000 + t

MapPut(map, key, value) ==
    [k \in DOMAIN map \cup {key} |-> IF k = key THEN value ELSE map[k]]

MapDelete(map, key) == [k \in DOMAIN map \ {key} |-> map[k]]

InitCollector ==
    /\ collector = [requestCount |-> 0, requestFailureCount |-> 0,
                    requestStartedAt |-> <<>>, responseTimes |-> <<>>,
                    sampledFor |-> <<>>, settled |-> {}]
    /\ scan = Undefined
    /\ IdleTier /\ IdleLabel /\ IdleEntry /\ IdleReport /\ IdleReporter /\ IdleCalls

\* page.on('request'): a new Request is counted and its start time kept.
OnRequest(now) ==
    /\ collector.requestCount < MaxRequests
    /\ clock' = now
    /\ collector' = [collector EXCEPT
           !.requestCount = @ + 1,
           !.requestStartedAt = MapPut(@, collector.requestCount + 1, DateNow(now))]
    /\ UNCHANGED <<score, tier, testCase, labelled, test, benchEntry, summary,
                   payload, lastChange, reporterVars, sample, stat, scan>>

OnRequestFinished_noCheck(request, now) ==
    /\ clock' = now
    /\ collector' = [collector EXCEPT
           !.responseTimes = Append(@, 0),
           !.sampledFor = Append(@, request),
           !.requestStartedAt = MapDelete(@, request),
           !.settled = @ \cup {request}]
    /\ UNCHANGED <<score, tier, testCase, labelled, test, benchEntry, summary,
                   payload, lastChange, reporterVars, sample, stat, scan>>

\* page.on('requestfinished'): a sample for a request the Map holds, which
\* then leaves the Map; nothing for another.
OnRequestFinished(request, now) ==
    /\ clock' = now
    /\ LET known     == request \in DOMAIN collector.requestStartedAt
           startedAt == IF known THEN collector.requestStartedAt[request] ELSE 0
       IN  IF known /\ startedAt # 0
           THEN collector' = [collector EXCEPT
                    !.responseTimes = Append(@, DateNow(now) - startedAt),
                    !.sampledFor = Append(@, request),
                    !.requestStartedAt = MapDelete(@, request),
                    !.settled = @ \cup {request}]
           ELSE collector' = [collector EXCEPT !.settled = @ \cup {request}]
    /\ UNCHANGED <<score, tier, testCase, labelled, test, benchEntry, summary,
                   payload, lastChange, reporterVars, sample, stat, scan>>

\* page.on('requestfailed'): the failure is counted and the request leaves
\* the Map.
OnRequestFailed(request, now) ==
    /\ clock' = now
    /\ collector' = [collector EXCEPT
           !.requestFailureCount = @ + 1,
           !.requestStartedAt = MapDelete(@, request),
           !.settled = @ \cup {request}]
    /\ UNCHANGED <<score, tier, testCase, labelled, test, benchEntry, summary,
                   payload, lastChange, reporterVars, sample, stat, scan>>

\* The events the page may emit: a new request, and for any request announced
\* so far, in flight or not, that it finished or that it failed.
NextCollector ==
    \E now \in clock..Min2(clock + 1, MaxClock) :
        \/ OnRequest(now)
        \/ \E request \in 1..collector.requestCount :
               \/ OnRequestFinished(request, now)
               \/ /\ collector.requestFailureCount < MaxRequests
                  /\ OnRequestFailed(request, now)

SpecCollector == InitCollector /\ [][NextCollector]_vars

InFlight == DOMAIN collector.requestStartedAt

\* C26: after any sequence of request, requestfinished and requestfailed
\* events the samples and the requests in flight together are at most
\* requestCount; no request has two samples; a request that finished or
\* failed is not in the Map; and a sample is added only by a requestfinished
\* event for a request that the Map held, which leaves the Map with it.
C26_SamplesOfStartedRequests ==
    /\ [](collector # Undefined =>
            /\ Len(collector.responseTimes) + Cardinality(InFlight)
                   <= collector.requestCount
            /\ Len(collector.sampledFor) = Len(collector.responseTimes)
            /\ \A i, j \in 1..Len(collector.sampledFor) :
                   collector.sampledFor[i] = collector.sampledFor[j] => i = j
            /\ collector.settled \cap InFlight = {})
    /\ [][Len(collector'.responseTimes) # Len(collector.responseTimes) =>
            /\ Len(collector'.responseTimes) = Len(collector.responseTimes) + 1
            /\ \E request \in InFlight :
                   /\ collector'.sampledFor = Append(collector.sampledFor, request)
                   /\ request \notin DOMAIN collector'.requestStartedAt]_vars

\* Three requests: the first finished after a millisecond, the second
\* failed, the third is in flight.
C26_Witness ==
    /\ collector # Undefined
    /\ collector.requestCount = 3
    /\ collector.responseTimes = <<1>>
    /\ collector.sampledFor = <<1>>
    /\ collector.requestFailureCount = 1
    /\ collector.settled = {1, 2}
    /\ InFlight = {3}

-----------------------------------------------------------------------------
(* Further claims about the payload of buildPayload (Spec)                 *)

\* The rows of the payload that carry the browser label of test entry i.
RowsOfTest(i) ==
    {k \in 1..Len(payload.browserRows) :
        payload.browserRows[k].browser = payload.tests[i].browser}

RowField(field) == SumSeq(MapField(payload.browserRows, field))

\* C28: the browser rows partition the test list: every test entry belongs
\* to exactly one row, the row of its browser label; no row is empty; the
\* rows' totalTests sum to the length of the tests list; the rows'
\* totalRequests and requestFailures sum to the overall totals; and in each
\* row passed + failed <= totalTests, where failed counts exactly the members
\* with status failed or timedOut.
C28_RowsPartitionTests ==
    /\ \A i \in 1..Len(payload.tests) : Cardinality(RowsOfTest(i)) = 1
    /\ \A r \in Rows :
          /\ RowMembers(r.browser) # {}
          /\ r.totalTests = Cardinality(RowMembers(r.browser))
          /\ r.failed = Cardinality({i \in RowMembers(r.browser) :
                            payload.tests[i].status \in {"failed", "timedOut"}})
          /\ r.passed = Cardinality({i \in RowMembers(r.browser) :
                            payload.tests[i].status = "passed"})
          /\ r.passed + r.failed <= r.totalTests
    /\ RowField("totalTests") = Len(payload.tests)
    /\ RowField("totalRequests") = payload.overall.totalRequests
    /\ RowField("requestFailures") = payload.overall.requestFailures

\* Two rows, one with a timed-out test and one whose only test was skipped.
C28_Witness ==
    /\ Len(payload.browserRows) > 1
    /\ \E r \in Rows : r.failed > 0 /\ r.passed = 0
    /\ \E r \in Rows : r.passed + r.failed < r.totalTests
    /\ \E i \in 1..Len(payload.tests) : payload.tests[i].status = "timedOut"

\* C29: in every test entry, every browser row and the overall summary the
\* benchmarkTier is the tier of the rounded benchmarkScore stored in the same
\* record: Elite from 90, Strong from 75, Stable from 60, Watch from 40 and
\* Critical below.
C29_TierOfStoredScore ==
    /\ \A i \in 1..Len(payload.tests) :
          InBand(payload.tests[i].benchmarkTier, payload.tests[i].benchmarkScore)
    /\ \A r \in Rows : InBand(r.benchmarkTier, r.benchmarkScore)
    /\ InBand(payload.overall.benchmarkTier, payload.overall.benchmarkScore)

\* A test entry, its row and the run in three different tiers.
C29_Witness ==
    \E i \in 1..Len(payload.tests) : \E r \in Rows :
        /\ r.browser = payload.tests[i].browser
        /\ r.benchmarkTier # payload.tests[i].benchmarkTier
        /\ payload.overall.benchmarkTier # r.benchmarkTier
        /\ payload.overall.benchmarkTier # payload.tests[i].benchmarkTier

-----------------------------------------------------------------------------
(* The per-test score against its raw inputs (SpecEntry)                   *)

\* How far a raw input is raised above the value of the test.
MaxRaise == 3

ErrorCounters ==
    {"requestFailureCount", "responseErrorCount", "consoleErrorCount", "pageErrorCount"}


\* The benchmarkScore of the test with one field set to another value.
ScoreWith(field, value) ==
    buildBenchmarkTestEntry([test EXCEPT ![field] = value]).benchmarkScore

ScoreWithSeverity(severity, value) ==
    buildBenchmarkTestEntry(
        [test EXCEPT !.accessibility[severity] = value]).benchmarkScore

\* The ends of the duration and throughput scales for an entry of duration d.
ScaleEnds(d, e) ==
    /\ e.durationScore = 10000 <=> d <= 1500
    /\ d >= 9000 => e.durationScore = 0
    /\ e.throughputScore = 10000 <=> d <= 2000
    /\ d >= 15000 => e.throughputScore = 0

\* C30: the benchmarkScore of a test never increases when its durationMs,
\* its retry, one of its four error counts or one of its accessibility
\* severity counts increases and the other inputs stay as they are;
\* durationScore is 100 for the durations up to 1500 ms and for no other, and
\* 0 from 9000 ms; throughputScore is 100 for the durations up to 2000 ms and
\* for no other, and 0 from 15000 ms.
C30_MonotoneInRawInputs ==
    benchEntry # Undefined =>
        LET e == benchEntry[1]
        IN  /\ \A d \in EntryDurations \cup {test.durationMs + k : k \in 1..MaxRaise} :
                  d > test.durationMs => ScoreWith("durationMs", d) <= e.benchmarkScore
            /\ \A k \in 1..MaxRaise :
                  /\ ScoreWith("retry", test.retry + k) <= e.benchmarkScore
                  /\ \A c \in ErrorCounters :
                        ScoreWith(c, test[c] + k) <= e.benchmarkScore
                  /\ \A v \in Severities :
                        ScoreWithSeverity(v, test.accessibility[v] + k) <= e.benchmarkScore
            /\ ScaleEnds(test.durationMs, e)
            /\ ScaleEnds(test.durationMs + 1,
                         buildBenchmarkTestEntry(
                             [test EXCEPT !.durationMs = test.durationMs + 1]))

\* A test of exactly 2000 ms with a retry, error signals and accessibility
\* findings: full throughput score, and a millisecond more lowers the
\* benchmarkScore.
C30_Witness ==
    /\ benchEntry # Undefined
    /\ test.durationMs = 2000
    /\ test.retry > 0
    /\ errorSignalsOf(test) > 0
    /\ test.accessibility.critical > 0
    /\ benchEntry[1].throughputScore = 10000
    /\ benchEntry[1].durationScore < 10000
    /\ 0 < benchEntry[1].benchmarkScore
    /\ ScoreWith("durationMs", test.durationMs + 1) < benchEntry[1].benchmarkScore

\* The throughput scale read the other way round, a zero score only from
\* 15000 ms: the throughput is rounded to two decimals before it is scored,
\* so this is not an invariant.
ThroughputZeroOnlyFrom15000 ==
    benchEntry # Undefined =>
        (benchEntry[1].throughputScore = 0 => test.durationMs >= 15000)

====
